---- MODULE Spec2Model ----
(***************************************************************************)
(* Audit-run orchestration and result reduction of upgsperformance:        *)
(*   src/services/screenshot.js  (median, takeScreenshotInBrowser,         *)
(*                                runOneLighthouseRun, mergeMedianSummary, *)
(*                                runLighthouse, extractSummary, ...)      *)
(*   src/routes/scans.js         (runOneScan, POST /scans,                 *)
(*                                POST /scans/rescan-both,                 *)
(*                                POST /scans/:id/rescan,                  *)
(*                                extractFilmstripFromLhr, ...)            *)
(*   src/db/schema.sql           (createScan, updateScanScreenshot, ...)   *)
(*                                                                         *)
(* Numbers.  Raw engine scores (0..1 floats) are kept in thousandths       *)
(* ("milli"): 0.73 is 730.  median() returns its result in halves (twice   *)
(* the JS value) so that the mean of two integers stays an integer;        *)
(* Math_round takes halves and returns a whole number.                     *)
(***************************************************************************)
EXTENDS Integers, Sequences, FiniteSets, TLC

\* ------------------------------------------------------------------ bounds
\* category scores of the generated reports are k * 100 milli, k in 0..MaxScoreK
MaxScoreK == 10
\* numeric metric values of the generated reports are 0..MaxMetricValue
MaxMetricValue == 2
\* the generated filmstrips have 0..MaxFrames frame items
MaxFrames == 40
\* audit lists with freely chosen scores have 0..MaxShortAudits entries
MaxShortAudits == 5
\* audit lists with patterned scores have 0..MaxLongAudits entries
MaxLongAudits == 22
\* raw category scores on the 0-1 scale are k hundredths, k in 0..MaxCentiScore
MaxCentiScore == 100
\* arrays passed to median have 0..MaxMedianLen elements
MaxMedianLen == 4

\* ------------------------------------------------------- program constants
MEDIAN_RUNS == 3
MAX_RECOMMENDATIONS == 20
FILMSTRIP_MAX_FRAMES == 25
MAX_REPORT_JSON_LENGTH == 5 * 1024 * 1024

\* JS null / undefined and NaN where a number is expected
NULL == -1000001
NaN == -1000002

metricIds ==
  << "first-contentful-paint", "largest-contentful-paint", "total-blocking-time",
     "cumulative-layout-shift", "speed-index", "interactive" >>

\* an audit id of a real report that is not one of the six metric ids
OtherAuditId == "server-response-time"

\* category ids of a report; "performance" is the one the selection reads
CategoryIds == {"performance", "seo"}

\* ------------------------------------------------------------ JS helpers
Abs(x) == IF x < 0 THEN -x ELSE x

Min2(a, b) == IF a < b THEN a ELSE b

Max2(a, b) == IF a > b THEN a ELSE b

Range(s) == {s[k] : k \in DOMAIN s}

\* Math.round of a value given in halves: floor(x + 0.5)
Math_round(h) == (h + 1) \div 2

\* String(n) of a whole number
JSString(n) == ToString(n)

\* String(m) of a value given in halves
JSStringHalves(h) ==
  IF h % 2 = 0 THEN ToString(h \div 2) ELSE ToString(h \div 2) \o ".5"

RECURSIVE InsertAsc(_, _)
InsertAsc(s, v) ==
  IF Len(s) = 0 THEN <<v>>
  ELSE IF v < s[1] THEN <<v>> \o s
  ELSE <<s[1]>> \o InsertAsc(Tail(s), v)

\* [...values].sort((a, b) => a - b); insertion after equal elements keeps it stable
RECURSIVE SortAsc(_)
SortAsc(s) ==
  IF Len(s) = 0 THEN <<>>
  ELSE InsertAsc(SortAsc(SubSeq(s, 1, Len(s) - 1)), s[Len(s)])

IsNumber(v) == v # NULL /\ v # NaN

medianLowerMiddle(values) ==
  IF Len(values) = 0 THEN NULL
  ELSE LET sorted == SortAsc(SelectSeq(values, IsNumber))
           mid == Len(sorted) \div 2
       IN IF Len(sorted) = 0 THEN NULL
          ELSE IF Len(sorted) % 2 # 0 THEN 2 * sorted[mid + 1]
          ELSE 2 * sorted[mid]

\* median(values): result in halves, NULL when nothing remains
median(values) ==
  IF Len(values) = 0 THEN NULL
  ELSE LET sorted == SortAsc(SelectSeq(values, IsNumber))
           mid == Len(sorted) \div 2
       IN IF Len(sorted) = 0 THEN NULL
          ELSE IF Len(sorted) % 2 # 0 THEN 2 * sorted[mid + 1]
          ELSE sorted[mid] + sorted[mid + 1]

\* ----------------------------------------------------- Result Extractor
\* the scores in 0..1000 milli whose double, multiplied by 100 in IEEE arithmetic,
\* lands just below the half the decimal product sits on (0.285 * 100 is 28.499...)
FloatBelowHalf == {145, 285, 565, 575}

\* Math.round(x * 100) for x in milli, 0 <= x <= 1000 (NaN for NaN)
RoundTimes100(x) ==
  IF x = NaN THEN NaN
  ELSE (x + 5) \div 10 - (IF x \in FloatBelowHalf THEN 1 ELSE 0)

normalizeAsPercent(score) ==
  LET n == IF score = NULL THEN 0 ELSE score
  IN IF n = NaN \/ n < 0 THEN NULL
     ELSE Max2(0, Min2(100, (Min2(100000, n) + 500) \div 1000))

\* normalizeCategoryScore(score), score in milli (or NULL / NaN)
normalizeCategoryScore(score) ==
  LET n == IF score = NULL THEN 0 ELSE score
  IN IF n = NaN \/ n < 0 THEN NULL
     ELSE LET out == IF n <= 1000 THEN RoundTimes100(n)
                     ELSE (Min2(100000, n) + 500) \div 1000
          IN Max2(0, Min2(100, out))

\* extractRecommendations(audits): audits is the entry list of the audits object.
\* A title is never empty for a non-empty id (title || id.replace), so the
\* "if (!title) continue" branch is dead.
RECURSIVE RecLoop(_, _)
RecLoop(audits, out) ==
  IF Len(audits) = 0 \/ Len(out) >= MAX_RECOMMENDATIONS THEN out
  ELSE LET a == audits[1]
       IN IF a.score = NULL THEN RecLoop(Tail(audits), out)
          ELSE IF a.score # NaN /\ a.score >= 900 THEN RecLoop(Tail(audits), out)
          ELSE RecLoop(Tail(audits),
                 Append(out, [id |-> a.id, score |-> RoundTimes100(a.score)]))

RECURSIVE InsertByScore(_, _)
InsertByScore(s, r) ==
  IF Len(s) = 0 THEN <<r>>
  ELSE IF r.score < s[1].score THEN <<r>> \o s
  ELSE <<s[1]>> \o InsertByScore(Tail(s), r)

\* out.sort((a, b) => a.score - b.score); insertion after equal scores keeps it stable
RECURSIVE SortByScore(_)
SortByScore(s) ==
  IF Len(s) = 0 THEN <<>>
  ELSE InsertByScore(SortByScore(SubSeq(s, 1, Len(s) - 1)), s[Len(s)])

extractRecommendationsUnsorted(audits) == RecLoop(audits, <<>>)

\* a native audit score is null or a finite number (the audit engine rejects any
\* other), so the comparator never sees the NaN that RecLoop would let through
extractRecommendations(audits) == SortByScore(RecLoop(audits, <<>>))

\* audits[id] of the audits object given as entry list: the last entry wins
AuditById(audits, id) ==
  LET ks == {k \in DOMAIN audits : audits[k].id = id}
  IN IF ks = {} THEN [id |-> id, numericValue |-> NULL, displayValue |-> "", score |-> NULL]
     ELSE audits[CHOOSE k \in ks : \A j \in ks : j <= k]

ExtractCategories(lhr) ==
  LET ids == {id \in DOMAIN lhr.categories :
                 lhr.categories[id] # NULL
                 /\ normalizeCategoryScore(lhr.categories[id]) # NULL}
  IN [id \in ids |-> normalizeCategoryScore(lhr.categories[id])]

ExtractMetrics(audits) ==
  LET ids == {id \in Range(metricIds) : AuditById(audits, id).numericValue # NULL}
  IN [id \in ids |->
        LET audit == AuditById(audits, id)
        IN [value |-> audit.numericValue,
            displayValue |-> IF audit.displayValue # "" THEN audit.displayValue
                             ELSE JSString(audit.numericValue)]]

\* extractSummary(lhr).  lhr.chromeVersion stands for the version that
\* parseChromeVersion finds in the report's user agent ("" when none).
extractSummary(lhr) ==
  [categories |-> ExtractCategories(lhr),
   metrics |-> ExtractMetrics(lhr.audits),
   recommendations |-> extractRecommendations(lhr.audits),
   finalUrl |-> IF lhr.finalUrl # "" THEN lhr.finalUrl ELSE lhr.requestedUrl,
   chromeVersion |-> lhr.chromeVersion]

\* ------------------------------------------------- Median-Run Coordinator
\* r.summary.categories && r.summary.categories[id]
CatOf(summary, id) ==
  IF id \in DOMAIN summary.categories THEN summary.categories[id] ELSE NULL

\* r.summary.metrics && r.summary.metrics[id] && r.summary.metrics[id].value
MetricValueOf(summary, id) ==
  IF id \in DOMAIN summary.metrics THEN summary.metrics[id].value ELSE NULL

NotNull(v) == v # NULL

MergeCategoriesAllIds(runs) ==
  LET vals(id) == SelectSeq([k \in 1..Len(runs) |-> CatOf(runs[k].summary, id)], NotNull)
      ids == UNION {DOMAIN runs[k].summary.categories : k \in 1..Len(runs)}
  IN [id \in ids |-> Math_round(median(vals(id)))]

MergeCategories(runs) ==
  LET first == runs[1].summary
      vals(id) == SelectSeq([k \in 1..Len(runs) |-> CatOf(runs[k].summary, id)], NotNull)
      ids == {id \in DOMAIN first.categories : median(vals(id)) # NULL}
  IN [id \in ids |-> Math_round(median(vals(id)))]

FindRunWithMetricLast(runs, id) ==
  LET ks == {k \in 1..Len(runs) : id \in DOMAIN runs[k].summary.metrics}
  IN IF ks = {} THEN 0 ELSE CHOOSE k \in ks : \A j \in ks : j <= k

\* runs.find((r) => r.summary.metrics && r.summary.metrics[id]): index, 0 if none
FindRunWithMetric(runs, id) ==
  LET ks == {k \in 1..Len(runs) : id \in DOMAIN runs[k].summary.metrics}
  IN IF ks = {} THEN 0 ELSE CHOOSE k \in ks : \A j \in ks : k <= j

\* merged metrics: value is kept in halves (see median)
MergeMetrics(runs) ==
  LET vals(id) == SelectSeq([k \in 1..Len(runs) |-> MetricValueOf(runs[k].summary, id)], NotNull)
      ids == {id \in Range(metricIds) : median(vals(id)) # NULL}
  IN [id \in ids |->
        LET m == median(vals(id))
            runWithMedian == FindRunWithMetric(runs, id)
            displayValue == IF runWithMedian = 0 THEN ""
                            ELSE runs[runWithMedian].summary.metrics[id].displayValue
        IN [value |-> m,
            displayValue |-> IF displayValue # "" THEN displayValue ELSE JSStringHalves(m)]]

PerfScores(runs) ==
  SelectSeq([k \in 1..Len(runs) |-> CatOf(runs[k].summary, "performance")], NotNull)

\* (r.summary.categories && r.summary.categories.performance) ?? 0
PerfOrZero(run) ==
  IF CatOf(run.summary, "performance") = NULL THEN 0 ELSE CatOf(run.summary, "performance")

\* runs.reduce((best, r) => ...) of mergeMedianSummary, as index of the run kept
RECURSIVE MergeReduce(_, _, _, _)
MergeReduce(runs, medianPerf, k, best) ==
  IF k > Len(runs) THEN best
  ELSE LET score == PerfOrZero(runs[k])
           bestScore == PerfOrZero(runs[best])
       IN MergeReduce(runs, medianPerf, k + 1,
            IF Abs(2 * score - medianPerf) < Abs(2 * bestScore - medianPerf) THEN k ELSE best)

MergeBestRunFirst(runs) == 1

\* index of bestRun inside mergeMedianSummary
MergeBestRun(runs) ==
  LET medianPerf == median(PerfScores(runs))
  IN IF medianPerf = NULL THEN 1 ELSE MergeReduce(runs, medianPerf, 1, 1)

mergeMedianSummary(runs) ==
  LET first == runs[1].summary
      bestRun == runs[MergeBestRun(runs)]
  IN [categories |-> MergeCategories(runs),
      metrics |-> MergeMetrics(runs),
      recommendations |-> bestRun.summary.recommendations,
      finalUrl |-> IF bestRun.summary.finalUrl # "" THEN bestRun.summary.finalUrl
                   ELSE first.finalUrl,
      chromeVersion |-> IF bestRun.summary.chromeVersion # "" THEN bestRun.summary.chromeVersion
                        ELSE first.chromeVersion]

\* runs.reduce((best, r) => ...) of runLighthouse, as index of the run kept
RECURSIVE LighthouseReduce(_, _, _, _)
LighthouseReduce(runs, medianPerf, k, best) ==
  IF k > Len(runs) THEN best
  ELSE LET score == PerfOrZero(runs[k])
           bestScore == PerfOrZero(runs[best])
       IN LighthouseReduce(runs, medianPerf, k + 1,
            IF Abs(2 * score - medianPerf) < Abs(2 * bestScore - medianPerf) THEN k ELSE best)

LighthouseBestRunLast(runs) == Len(runs)

\* index of bestRun inside runLighthouse
LighthouseBestRun(runs) ==
  LET medianPerf == median(PerfScores(runs))
  IN IF medianPerf = NULL THEN 1 ELSE LighthouseReduce(runs, medianPerf, 1, 1)

\* the value runLighthouse returns once all runs are in
MergedOutcome(runs) ==
  LET bestRun == runs[LighthouseBestRun(runs)]
  IN [report |-> bestRun.report,
      summary |-> mergeMedianSummary(runs),
      screenshot |-> bestRun.screenshot]

\* ------------------------------------------- Filmstrip Extractor / Stripper
NoFilmstrip == [null |-> TRUE]

HasData(f) == f.data > 0

extractFilmstripUncapped(lhr) ==
  LET details == lhr.filmstrip
  IN IF details.type # "filmstrip" \/ Len(details.items) = 0 THEN NoFilmstrip
     ELSE LET frames == SelectSeq(details.items, HasData)
          IN IF Len(frames) = 0 THEN NoFilmstrip
             ELSE [frames |-> frames, chromeVersion |-> lhr.chromeVersion]

\* extractFilmstripFromLhr(lhr); a frame's data is modelled by its length
extractFilmstripFromLhr(lhr) ==
  LET details == lhr.filmstrip
  IN IF details.type # "filmstrip" \/ Len(details.items) = 0 THEN NoFilmstrip
     ELSE LET frames == SelectSeq(SubSeq(details.items, 1,
                                    Min2(FILMSTRIP_MAX_FRAMES, Len(details.items))), HasData)
          IN IF Len(frames) = 0 THEN NoFilmstrip
             ELSE [frames |-> frames, chromeVersion |-> lhr.chromeVersion]

stripFilmstripKeepsItems(lhr) == lhr

\* stripFilmstripFromLhr(lhr): the report after the in-place mutation
stripFilmstripFromLhr(lhr) ==
  IF lhr.filmstrip.type = "filmstrip"
  THEN [lhr EXCEPT !.filmstrip.items = <<>>]
  ELSE lhr

RECURSIVE SumData(_)
SumData(items) == IF Len(items) = 0 THEN 0 ELSE items[1].data + SumData(Tail(items))

\* JSON.stringify(report).length
JSONLength(report) == report.baseLen + SumData(report.filmstrip.items)

\* ------------------------------------------------------------------ state
VARIABLES
  req,           \* the request being served
  hpc,           \* route handler: "idle", "mobile", "desktop", "single", "rescan", "done"
  res,           \* response sent to the request
  mobileScanId,  \* handler local: id returned by the mobile pass
  scans,         \* table scans
  screenshotFiles, \* files under SCREENSHOTS_DIR
  filmstripFiles,  \* files under FILMSTRIPS_DIR
  spc,           \* runOneScan: "idle", "lighthouse", "persist", "filmstrip", "screenshot", "returned", "thrown"
  scanArgs,      \* runOneScan arguments
  scanLocal,     \* runOneScan locals after createScan
  scanErr,       \* error thrown out of runOneScan
  lhResult,      \* value returned by runLighthouse
  runs,          \* runLighthouse: runs pushed so far
  rpc,           \* runOneLighthouseRun: "idle", "launch", "audit", "capture", "kill", "catchKill"
  chrome,        \* handle returned by chromeLauncher.launch (0: undefined)
  alive,         \* browser processes alive
  nBrowsers,     \* browser processes ever started
  lhr,           \* result.lhr of the current run
  cpc,           \* takeScreenshotInBrowser: index of the next step in CaptureSteps
  shot,          \* value returned by takeScreenshotInBrowser
  runLog,        \* what the current / last run did
  runsStarted,   \* runLighthouse: calls of runOneLighthouseRun made so far
  values,        \* median: the caller's array passed as argument
  medianResult,  \* median: the value returned to the caller
  guestStore,    \* session store: the guest session as last saved
  guestReqs,     \* POST /guest/scan requests of the guest session, each with its req.session
  guestReportTokens, \* Map guestReportTokens
  guestLog,      \* audits completed for the session, tokens issued, reports served
  post,          \* a POST request on its way through the middleware chain of its route
  del,           \* the delete request being served
  users,         \* table users (ids)
  pageReq,       \* GET /scans: requested page, group count, groups loaded
  pageView,      \* GET /scans: what is rendered
  modalHidden,   \* modal dialog: the element has the attribute hidden
  resolvePromise, \* modal dialog: promise whose resolve function is held (0: null)
  isConfirm,     \* modal dialog
  isChoice,      \* modal dialog
  buttons,       \* modal dialog: click values of the buttons in actionsEl
  keydownListeners, \* keydown listeners registered on document
  promises       \* promises returned by showAlert / showConfirm / showChoice

wfVars == << req, hpc, res, mobileScanId, scans, screenshotFiles, filmstripFiles,
             spc, scanArgs, scanLocal, scanErr >>

runVars == << lhResult, runs, rpc, chrome, alive, nBrowsers, lhr, cpc, shot, runLog,
             runsStarted >>

medianVars == << values, medianResult >>

guestVars == << guestStore, guestReqs, guestReportTokens, guestLog >>

deleteVars == << del, users >>

pageVars == << pageReq, pageView >>

modalVars == << modalHidden, resolvePromise, isConfirm, isChoice, buttons,
               keydownListeners, promises >>

\* everything outside the audit workflow
siteVars == << guestVars, post, deleteVars, pageVars, modalVars >>

otherVars == << medianVars, siteVars >>

vars == << wfVars, runVars, medianVars, siteVars >>

\* ------------------------------------------------------------ values
NoResult == [null |-> TRUE]
NoLhr == [null |-> TRUE]
NullScreenshot == [null |-> TRUE]
NullReport == [null |-> TRUE]
NoResponse == [status |-> 0, kind |-> "", body |-> ""]
NoRequest == [route |-> "", acceptsJson |-> FALSE, devices |-> {}]
NoArgs == [formFactor |-> "", runId |-> "", url |-> ""]
NoLocal == [scanId |-> 0, attempts |-> <<>>]
IsNull(x) == "null" \in DOMAIN x
\* median has not been called
NotCalled == NULL - 2

\* req.session.userId of the signed-in user
UserId == 1
TheUrl == "https://example.com/"

CaptureSteps ==
  << "connect", "newPage", "setViewport", "goto", "evaluate", "screenshot", "disconnect" >>

\* launches: calls of chromeLauncher.launch; audits: calls of lighthouse();
\* captures: calls of takeScreenshotInBrowser; target: the browser puppeteer.connect
\* attached to (0: none); kills: handles chrome.kill() was called on;
\* teardownRejected: the kill inside the catch block rejected
FreshLog ==
  [launches |-> 0, audits |-> 0, captures |-> 0, target |-> 0, kills |-> <<>>,
   capFail |-> "", killRejected |-> FALSE, teardownRejected |-> FALSE,
   status |-> "running", err |-> ""]

NoFilmstripDetails == [type |-> "", items |-> <<>>]
OneFrame == [type |-> "filmstrip", items |-> << [timing |-> 1, data |-> 2] >>]

\* the reports the audit engine returns in the workflow specification
WorkflowReport(perf, details, baseLen) ==
  [id |-> 0, categories |-> [c \in {"performance"} |-> perf], audits |-> <<>>,
   finalUrl |-> "", requestedUrl |-> TheUrl, chromeVersion |-> "120.0",
   filmstrip |-> details, baseLen |-> baseLen]

WorkflowReports ==
  { WorkflowReport(1000, OneFrame, MAX_REPORT_JSON_LENGTH),
    WorkflowReport(NULL, NoFilmstripDetails, MAX_REPORT_JSON_LENGTH + 1) }

\* ------------------------------------------- the rest of the site at rest
NoGuestSession == [guestScansCount |-> NULL, guestLastReport |-> 0]
NoGuestLog == [audits |-> 0, issued |-> 0, served |-> <<>>]
GuestIdle ==
  /\ guestStore = NoGuestSession /\ guestReqs = <<>>
  /\ guestReportTokens = {} /\ guestLog = NoGuestLog

NoPost == [route |-> "", pc |-> "idle"]
PostIdle == post = NoPost

NoDelete == [route |-> "", pc |-> "idle"]
OtherUserId == 2
DeleteIdle == del = NoDelete /\ users = {UserId, OtherUserId}

NoPage == [page |-> 0]
PageIdle == pageReq = NoPage /\ pageView = NoPage

ModalIdle ==
  /\ modalHidden = TRUE /\ resolvePromise = 0 /\ isConfirm = FALSE /\ isChoice = FALSE
  /\ buttons = <<>> /\ keydownListeners = {} /\ promises = <<>>

InitSite == GuestIdle /\ PostIdle /\ DeleteIdle /\ PageIdle /\ ModalIdle

\* ------------------------------------------------------------------ Init
\* rows of an earlier two-device scan (run_id "run-0"), as POST /scans stores them
StoredReport == [WorkflowReport(1000, OneFrame, 100) EXCEPT !.filmstrip.items = <<>>]

ExistingGroup ==
  << [id |-> 1, user_id |-> UserId, url |-> TheUrl, formFactor |-> "mobile",
      report_json |-> StoredReport, summary |-> extractSummary(StoredReport),
      run_id |-> "run-0", screenshot_path |-> ""],
     [id |-> 2, user_id |-> UserId, url |-> TheUrl, formFactor |-> "desktop",
      report_json |-> StoredReport, summary |-> extractSummary(StoredReport),
      run_id |-> "run-0", screenshot_path |-> ""] >>

Init ==
  /\ req = NoRequest /\ hpc = "idle" /\ res = NoResponse
  /\ mobileScanId = 0 /\ scans = ExistingGroup
  /\ screenshotFiles = {} /\ filmstripFiles = {}
  /\ spc = "idle" /\ scanArgs = NoArgs /\ scanLocal = NoLocal /\ scanErr = ""
  /\ lhResult = NoResult /\ runs = <<>> /\ rpc = "idle" /\ chrome = 0
  /\ alive = {} /\ nBrowsers = 0 /\ lhr = NoLhr /\ cpc = 0
  /\ shot = NullScreenshot /\ runLog = FreshLog /\ runsStarted = 0
  /\ values = <<>> /\ medianResult = NotCalled
  /\ InitSite

\* --------------------------------------------- runOneLighthouseRun (one run)
\* runLighthouse loop head: for (i < MEDIAN_RUNS) await runOneLighthouseRun(...)
StartRun ==
  /\ spc = "lighthouse" /\ rpc = "idle" /\ Len(runs) < MEDIAN_RUNS
  /\ rpc' = "launch" /\ chrome' = 0 /\ lhr' = NoLhr /\ cpc' = 0
  /\ shot' = NullScreenshot /\ runLog' = FreshLog
  /\ runsStarted' = runsStarted + 1
  /\ UNCHANGED << wfVars, lhResult, runs, alive, nBrowsers >>
  /\ UNCHANGED otherVars

\* throw new Error(`Chrome failed to start: ${msg}`)
LaunchErrorMessage(code) ==
  "Chrome failed to start: "
    \o (IF code = "ECONNREFUSED" THEN "Chrome started but could not connect."
        ELSE "launch error")

\* throw new Error(`Lighthouse run failed: ${msg}`)
RunErrorMessage(code) ==
  "Lighthouse run failed: "
    \o (IF code = "ECONNREFUSED" THEN "Chrome exited before Lighthouse could connect."
        ELSE code)

SwallowRunError == "lighthouse"

\* a rejection of runOneLighthouseRun is caught neither by the loop of runLighthouse
\* nor by runOneScan: the awaiting runOneScan call rejects
PropagateRunError == "thrown"

LogKillSkipped(log, c) == log

\* chrome.kill() is called on the handle c
LogKill(log, c) == [log EXCEPT !.kills = Append(@, c)]

KilledStillAlive(procs, c) == procs

\* the awaited chrome.kill() resolved: the process is gone
Killed(procs, c) == procs \ {c}

CaptureCatchRethrow == [shot |-> NullScreenshot, rpc |-> "catchKill"]

\* catch block of takeScreenshotInBrowser: log and return null; the run goes on to kill
CaptureCatch == [shot |-> NullScreenshot, rpc |-> "kill"]

ConnectTargetOther(handle) == handle + 1

\* puppeteer.connect({ browserURL: `http://127.0.0.1:${port}` }) with port = chrome.port:
\* the browser behind the control port of the handle
ConnectTarget(handle) == handle

RunErrorFromTeardown(log, killOk) ==
  RunErrorMessage(IF killOk THEN log.err ELSE "kill error")

\* await chrome.kill().catch(() => {}); msg = lighthouseErr.message: the error thrown
\* by the catch block is built from the caught error whatever the kill did
RunError(log, killOk) == RunErrorMessage(log.err)

\* chrome = await chromeLauncher.launch(launchOpts), with its catch
Launch ==
  /\ rpc = "launch"
  /\ \E outcome \in {"ok", "ECONNREFUSED", "error"} :
       IF outcome = "ok"
       THEN /\ nBrowsers' = nBrowsers + 1
            /\ chrome' = nBrowsers + 1
            /\ alive' = alive \cup {nBrowsers + 1}
            /\ rpc' = "audit"
            /\ runLog' = [runLog EXCEPT !.launches = @ + 1]
            /\ UNCHANGED << spc, scanErr >>
       ELSE /\ rpc' = "idle"
            /\ runLog' = [runLog EXCEPT !.launches = @ + 1, !.status = "launchFailed",
                                        !.err = outcome]
            /\ spc' = PropagateRunError
            /\ scanErr' = LaunchErrorMessage(outcome)
            /\ UNCHANGED << nBrowsers, chrome, alive >>
  /\ UNCHANGED << req, hpc, res, mobileScanId, scans, screenshotFiles,
                  filmstripFiles, scanArgs, scanLocal, lhResult, runs, lhr, cpc, shot,
                  runsStarted >>
  /\ UNCHANGED otherVars

\* result = await lighthouse(url, ...); lhr = result.lhr; summary = extractSummary(lhr)
Audit ==
  /\ rpc = "audit"
  /\ \/ \E r \in WorkflowReports :
          /\ lhr' = [r EXCEPT !.id = chrome]
          /\ rpc' = "capture" /\ cpc' = 1
          /\ runLog' = [runLog EXCEPT !.audits = @ + 1, !.captures = @ + 1]
     \/ \E code \in {"ECONNREFUSED", "error"} :
          /\ runLog' = [runLog EXCEPT !.audits = @ + 1, !.err = code]
          /\ rpc' = "catchKill"
          /\ UNCHANGED << lhr, cpc >>
  /\ UNCHANGED << wfVars, lhResult, runs, chrome, alive, nBrowsers, shot, runsStarted >>
  /\ UNCHANGED otherVars

\* takeScreenshotInBrowser(chrome.port, screenshotUrl, formFactor), one awaited
\* step at a time; a rejected step goes to its catch (disconnect, log, return null)
CaptureStep ==
  /\ rpc = "capture"
  /\ \E ok \in BOOLEAN, len \in {0, 1} :
       LET step == CaptureSteps[cpc]
       IN IF ~ok
          THEN /\ shot' = CaptureCatch.shot
               /\ runLog' = [runLog EXCEPT !.capFail = step]
               /\ rpc' = CaptureCatch.rpc /\ cpc' = 0
          ELSE /\ shot' = IF step = "screenshot"
                          THEN [buffer |-> len, ext |-> "webp", browser |-> runLog.target]
                          ELSE shot
               /\ (step # "screenshot" => len = 0)
               /\ IF cpc = Len(CaptureSteps)
                  THEN rpc' = "kill" /\ cpc' = 0
                  ELSE rpc' = "capture" /\ cpc' = cpc + 1
               /\ runLog' = IF step = "connect"
                            THEN [runLog EXCEPT !.target = ConnectTarget(chrome)]
                            ELSE runLog
  /\ UNCHANGED << wfVars, lhResult, runs, chrome, alive, nBrowsers, lhr, runsStarted >>
  /\ UNCHANGED otherVars

\* await chrome.kill(); return { report: lhr, summary, screenshot }
Kill ==
  /\ rpc = "kill"
  /\ \E ok \in BOOLEAN :
       IF ok
       THEN /\ alive' = Killed(alive, chrome)
            /\ runs' = Append(runs, [report |-> lhr, summary |-> extractSummary(lhr),
                                     screenshot |-> shot])
            /\ rpc' = "idle"
            /\ runLog' = [LogKill(runLog, chrome) EXCEPT !.status = "ok"]
       ELSE /\ rpc' = "catchKill"
            /\ runLog' = [LogKill(runLog, chrome) EXCEPT !.err = "kill error",
                                                         !.killRejected = TRUE]
            /\ UNCHANGED << alive, runs >>
  /\ UNCHANGED << wfVars, lhResult, chrome, nBrowsers, lhr, cpc, shot, runsStarted >>
  /\ UNCHANGED otherVars

\* catch (lighthouseErr) { await chrome.kill().catch(() => {}); throw new Error(...) }
\* The rejection leaves runLighthouse (no catch) and runOneScan (no catch).
CatchKill ==
  /\ rpc = "catchKill"
  /\ \E ok \in BOOLEAN :
       /\ alive' = IF ok THEN Killed(alive, chrome) ELSE alive
       /\ runLog' = [LogKill(runLog, chrome) EXCEPT !.status = "failed",
                                                    !.teardownRejected = ~ok]
       /\ scanErr' = RunError(runLog, ok)
  /\ rpc' = "idle"
  /\ spc' = PropagateRunError
  /\ UNCHANGED << req, hpc, res, mobileScanId, scans, screenshotFiles,
                  filmstripFiles, scanArgs, scanLocal, lhResult, runs, chrome,
                  nBrowsers, lhr, cpc, shot, runsStarted >>
  /\ UNCHANGED otherVars

\* runLighthouse after the loop: merge and pick the run to keep
RunLighthouseReturn ==
  /\ spc = "lighthouse" /\ rpc = "idle" /\ Len(runs) = MEDIAN_RUNS
  /\ lhResult' = MergedOutcome(runs)
  /\ spc' = "persist"
  /\ UNCHANGED << req, hpc, res, mobileScanId, scans, screenshotFiles,
                  filmstripFiles, scanArgs, scanLocal, scanErr, runs, runsStarted,
                  rpc, chrome, alive, nBrowsers, lhr, cpc, shot, runLog >>
  /\ UNCHANGED otherVars

\* ------------------------------------------------------------- runOneScan
\* runOneScan(userId, url, formFactor, runId) up to its first await
BeginScan(formFactor, runId, url) ==
  /\ spc' = "lighthouse"
  /\ scanArgs' = [formFactor |-> formFactor, runId |-> runId, url |-> url]
  /\ scanLocal' = NoLocal /\ scanErr' = ""
  /\ runs' = <<>> /\ lhResult' = NoResult
  /\ chrome' = 0 /\ lhr' = NoLhr /\ cpc' = 0 /\ shot' = NullScreenshot
  /\ runLog' = FreshLog /\ runsStarted' = 0

HasScreenshot(s) == ~IsNull(s) /\ s.buffer > 0

AfterFilmstrip(screenshot) == IF HasScreenshot(screenshot) THEN "screenshot" ELSE "returned"

\* db.createScan(userId, url, options, reportToStore, summary, runId): the new row
NewScanRow(id, args, reportToStore, summary) ==
  [id |-> id, user_id |-> UserId, url |-> args.url, formFactor |-> args.formFactor,
   report_json |-> reportToStore, summary |-> summary, run_id |-> args.runId,
   screenshot_path |-> ""]

ReportToStoreAlways(report) == report

\* reportJson.length <= MAX_REPORT_JSON_LENGTH ? reportJson : null
ReportToStore(report) ==
  IF JSONLength(report) <= MAX_REPORT_JSON_LENGTH THEN report ELSE NullReport

\* after runLighthouse returned: extract filmstrip, strip (the report object is
\* mutated in place), stringify, size check, createScan.  scanLocal.attempts lists
\* the artifact writes tried so far and where each failed.
Persist ==
  /\ spc = "persist"
  /\ LET report == lhResult.report
         filmstripPayload == extractFilmstripFromLhr(report)
         stripped == stripFilmstripFromLhr(report)
         reportToStore == ReportToStore(stripped)
         scanId == Len(scans) + 1
     IN /\ lhResult' = [lhResult EXCEPT !.report = stripped]
        /\ \E dbOk \in BOOLEAN :
             IF dbOk
             THEN /\ scans' = Append(scans, NewScanRow(scanId, scanArgs, reportToStore,
                                                       lhResult.summary))
                  /\ scanLocal' = [scanId |-> scanId, attempts |-> <<>>,
                                   filmstripPayload |-> filmstripPayload,
                                   screenshot |-> lhResult.screenshot]
                  /\ spc' = IF ~IsNull(filmstripPayload) THEN "filmstrip"
                            ELSE AfterFilmstrip(lhResult.screenshot)
                  /\ UNCHANGED scanErr
             ELSE /\ spc' = "thrown" /\ scanErr' = "database error"
                  /\ UNCHANGED << scans, scanLocal >>
  /\ UNCHANGED << req, hpc, res, mobileScanId, screenshotFiles, filmstripFiles,
                  scanArgs, runs, rpc, chrome, alive, nBrowsers, lhr, cpc, shot, runLog,
                  runsStarted >>
  /\ UNCHANGED otherVars

FilmstripSaveFailedThrows(screenshot) == "thrown"

\* catch (e) { console.error('Filmstrip save failed (scan saved):', ...) }: execution
\* goes on with the screenshot block
FilmstripSaveFailed(screenshot) == AfterFilmstrip(screenshot)

\* try { mkdir(FILMSTRIPS_DIR); writeFile(filmstripFilePath(scanId), ...) } catch { log }
FilmstripSave ==
  /\ spc = "filmstrip"
  /\ \E failAt \in {"none", "mkdir", "writeFile"} :
       /\ filmstripFiles' =
            IF failAt = "none"
            THEN filmstripFiles \cup
                   {[path |-> ToString(scanLocal.scanId) \o ".json",
                     frames |-> scanLocal.filmstripPayload.frames,
                     chromeVersion |-> scanLocal.filmstripPayload.chromeVersion]}
            ELSE filmstripFiles
       /\ scanLocal' = [scanLocal EXCEPT
                          !.attempts = Append(@, [artifact |-> "filmstrip", failAt |-> failAt])]
       /\ spc' = IF failAt = "none" THEN AfterFilmstrip(scanLocal.screenshot)
                 ELSE FilmstripSaveFailed(scanLocal.screenshot)
  /\ UNCHANGED << req, hpc, res, mobileScanId, scans, screenshotFiles,
                  scanArgs, scanErr, runVars >>
  /\ UNCHANGED otherVars

\* db.updateScanScreenshot(scanId, path)
updateScanScreenshot(rows, scanId, path) ==
  [k \in DOMAIN rows |->
     IF rows[k].id = scanId THEN [rows[k] EXCEPT !.screenshot_path = path] ELSE rows[k]]

ScreenshotUpdateAlways(rows, failAt, scanId, name) ==
  updateScanScreenshot(rows, scanId, name)

\* db.updateScanScreenshot is the last statement of the try block: it takes effect
\* only when mkdir, writeFile and the update itself did not throw
ScreenshotUpdate(rows, failAt, scanId, name) ==
  IF failAt = "none" THEN updateScanScreenshot(rows, scanId, name) ELSE rows

\* try { mkdir(SCREENSHOTS_DIR); writeFile(filePath, buffer); updateScanScreenshot } catch { log }
ScreenshotSave ==
  /\ spc = "screenshot"
  /\ LET name == ToString(scanLocal.scanId) \o "." \o scanLocal.screenshot.ext
     IN \E failAt \in {"none", "mkdir", "writeFile", "update"} :
          /\ screenshotFiles' =
               IF failAt \in {"none", "update"}
               THEN screenshotFiles \cup {[path |-> name, buffer |-> scanLocal.screenshot.buffer]}
               ELSE screenshotFiles
          /\ scans' = ScreenshotUpdate(scans, failAt, scanLocal.scanId, name)
          /\ scanLocal' = [scanLocal EXCEPT
                             !.attempts = Append(@, [artifact |-> "screenshot", failAt |-> failAt])]
  /\ spc' = "returned"
  /\ UNCHANGED << req, hpc, res, mobileScanId, filmstripFiles,
                  scanArgs, scanErr, runVars >>
  /\ UNCHANGED otherVars

\* ----------------------------------------------------------- route handlers
Redirect(location) == [status |-> 302, kind |-> "redirect", body |-> location]
Json(status, text) == [status |-> status, kind |-> "json", body |-> text]
Render(status, text) == [status |-> status, kind |-> "render", body |-> text]

DesktopFailedAsRescanFailed(request) == Redirect("/scans?error=rescan")

\* inner catch (desktopErr) of POST /scans and POST /scans/rescan-both
DesktopFailed(request) ==
  IF request.acceptsJson THEN Json(500, "Desktop rescan failed.")
  ELSE Redirect("/scans?error=desktop")

\* outer catch (err) of POST /scans and POST /scans/rescan-both
ScanFailed(request, message) ==
  IF request.route = "/scans" THEN Render(500, message)
  ELSE IF request.acceptsJson THEN Json(500, message)
  ELSE Redirect("/scans?error=rescan")

\* catch (err) of POST /scans/:id/rescan: json, or the report-detail page with the error
RescanFailed(request, message) ==
  IF request.acceptsJson THEN Json(500, message) ELSE Render(500, message)

\* res.redirect(`/scans/${id}`) or res.json({ redirect }) after the last pass
ScanSucceeded(request, id) ==
  IF request.acceptsJson THEN Json(200, "redirect /scans/" \o ToString(id))
  ELSE Redirect("/scans/" \o ToString(id))

\* `run-${Date.now()}-${randomBytes(4).toString('hex')}`: a run id no stored row has
NewRunId == "run-1"

RespondNow(response) ==
  /\ res' = response /\ hpc' = "done"
  /\ UNCHANGED << mobileScanId, scans, screenshotFiles, filmstripFiles, spc, scanArgs,
                  scanLocal, scanErr, runVars >>

StartPass(pc, formFactor, runId, url) ==
  /\ hpc' = pc /\ res' = NoResponse
  /\ BeginScan(formFactor, runId, url)
  /\ UNCHANGED << mobileScanId, scans, screenshotFiles, filmstripFiles,
                  rpc, alive, nBrowsers >>

\* router.post('/scans') up to the first await
PostScans ==
  /\ hpc = "idle"
  /\ \E validUrl \in BOOLEAN, devices \in SUBSET {"mobile", "desktop"} :
       LET runMobile == "mobile" \in devices
           runDesktop == "desktop" \in devices
       IN /\ req' = [route |-> "/scans", acceptsJson |-> FALSE,
                     devices |-> IF validUrl THEN devices ELSE {}]
          /\ IF ~validUrl
             THEN RespondNow(Render(400, "Please enter a valid http or https URL."))
             ELSE IF ~runMobile /\ ~runDesktop
             THEN RespondNow(Render(400, "Select at least one device (Mobile and/or Desktop)."))
             ELSE IF runMobile /\ runDesktop
             THEN StartPass("mobile", "mobile", NewRunId, TheUrl)
             ELSE StartPass("single", IF runMobile THEN "mobile" ELSE "desktop", "", TheUrl)
  /\ UNCHANGED otherVars

\* db.getScansByRunIdAndUserId(runId, userId)
getScansByRunIdAndUserId(runId, userId) ==
  IF runId = "" THEN <<>>
  ELSE SelectSeq(scans, LAMBDA row : row.run_id = runId /\ row.user_id = userId)

\* router.post('/scans/rescan-both') up to the first await
PostRescanBoth ==
  /\ hpc = "idle"
  /\ \E runId \in {"", "run-0", "run-9"}, acceptsJson \in BOOLEAN :
       /\ LET group == getScansByRunIdAndUserId(runId, UserId)
          IN req' = [route |-> "/scans/rescan-both", acceptsJson |-> acceptsJson,
                     devices |-> IF Len(group) < 2 THEN {} ELSE {"mobile", "desktop"}]
       /\ LET group == getScansByRunIdAndUserId(runId, UserId)
          IN IF runId = ""
             THEN RespondNow(Json(400, "Missing run_id"))
             ELSE IF Len(group) < 2
             THEN RespondNow(Json(404, "Scan group not found"))
             ELSE StartPass("mobile", "mobile", NewRunId, group[1].url)
  /\ UNCHANGED otherVars

\* db.getScanByIdAndUserId(id, userId): the rows found (none or one)
getScanByIdAndUserId(id, userId) ==
  SelectSeq(scans, LAMBDA row : row.id = id /\ row.user_id = userId)

\* router.post('/scans/:id/rescan') up to the first await; its try block repeats
\* the body of runOneScan with options = scan.options and no run id
PostRescan ==
  /\ hpc = "idle"
  /\ \E id \in {NaN, 2, 9}, acceptsJson \in BOOLEAN :
       LET found == getScanByIdAndUserId(id, UserId)
       IN /\ req' = [route |-> "/scans/:id/rescan", acceptsJson |-> acceptsJson,
                     devices |-> IF id = NaN \/ Len(found) = 0 THEN {}
                                 ELSE {found[1].formFactor}]
          /\ IF id = NaN
             THEN RespondNow(Json(400, "Invalid scan ID"))
             ELSE IF Len(found) = 0
             THEN RespondNow(Json(404, "Scan not found"))
             ELSE StartPass("rescan", found[1].formFactor, "", found[1].url)
  /\ UNCHANGED otherVars

\* the handler resumes after an awaited runOneScan returned
ScanReturned ==
  /\ spc = "returned"
  /\ IF hpc = "mobile"
     THEN /\ mobileScanId' = scanLocal.scanId
          /\ hpc' = "desktop" /\ res' = NoResponse
          /\ BeginScan("desktop", scanArgs.runId, scanArgs.url)
     ELSE /\ res' = ScanSucceeded(req, IF hpc = "desktop" THEN mobileScanId
                                       ELSE scanLocal.scanId)
          /\ hpc' = "done" /\ spc' = "idle"
          /\ UNCHANGED << mobileScanId, scanArgs, scanLocal, scanErr, runs, lhResult,
                          chrome, lhr, cpc, shot, runLog, runsStarted >>
  /\ UNCHANGED << req, scans, screenshotFiles, filmstripFiles, rpc, alive, nBrowsers >>
  /\ UNCHANGED otherVars

\* the handler's catch blocks after an awaited runOneScan threw
ScanThrew ==
  /\ spc = "thrown"
  /\ res' =
       IF hpc = "desktop" THEN DesktopFailed(req)
       ELSE IF hpc = "rescan" THEN RescanFailed(req, scanErr)
       ELSE ScanFailed(req, scanErr)
  /\ hpc' = "done" /\ spc' = "idle"
  /\ UNCHANGED << req, mobileScanId, scans, screenshotFiles, filmstripFiles,
                  scanArgs, scanLocal, scanErr, runVars >>
  /\ UNCHANGED otherVars

Next ==
  \/ PostScans \/ PostRescanBoth \/ PostRescan \/ ScanReturned \/ ScanThrew
  \/ StartRun \/ Launch \/ Audit \/ CaptureStep \/ Kill \/ CatchKill
  \/ RunLighthouseReturn \/ Persist \/ FilmstripSave \/ ScreenshotSave

Spec == Init /\ [][Next]_vars

\* ------------------------------------------- inputs of the merge (pure) part
\* run k of a runLighthouse call whose audit returned the report r
MergeRun(k, r) ==
  [report |-> [r EXCEPT !.id = k],
   summary |-> extractSummary(r),
   screenshot |-> [buffer |-> 1, ext |-> "webp", browser |-> k]]

PerfInputs == {NULL} \cup {100 * k : k \in 0..MaxScoreK}
SeoInputs == {NULL, 500}

\* a report with the given category scores whose only failing audit is its own
CategoryReport(k, perf, seo) ==
  [id |-> k,
   categories |-> [c \in CategoryIds |-> IF c = "performance" THEN perf ELSE seo],
   audits |-> << [id |-> "audit-" \o ToString(k), numericValue |-> NULL,
                  displayValue |-> "", score |-> 100 * k] >>,
   finalUrl |-> "", requestedUrl |-> TheUrl, chromeVersion |-> "120.0",
   filmstrip |-> NoFilmstripDetails, baseLen |-> 100]

MetricAuditInputs(k, id) ==
  {<<>>} \cup
  { << [id |-> id, numericValue |-> v, displayValue |-> d, score |-> 1000] >> :
       v \in 0..MaxMetricValue, d \in {"", "shown by run " \o ToString(k)} }

OtherAuditInputs ==
  { <<>>, << [id |-> OtherAuditId, numericValue |-> 7, displayValue |-> "7 ms",
              score |-> 1000] >> }

MetricReport(k, audits) ==
  [id |-> k, categories |-> [c \in {"performance"} |-> 1000], audits |-> audits,
   finalUrl |-> "", requestedUrl |-> TheUrl, chromeVersion |-> "120.0",
   filmstrip |-> NoFilmstripDetails, baseLen |-> 100]

RunIndexes == 1..MEDIAN_RUNS

\* state in which runLighthouse has pushed its MEDIAN_RUNS runs and is about to merge
InitAfterRuns ==
  /\ req = [route |-> "/scans", acceptsJson |-> FALSE, devices |-> {"mobile"}]
  /\ hpc = "single" /\ res = NoResponse
  /\ mobileScanId = 0 /\ scans = ExistingGroup
  /\ screenshotFiles = {} /\ filmstripFiles = {}
  /\ spc = "lighthouse"
  /\ scanArgs = [formFactor |-> "mobile", runId |-> "", url |-> TheUrl]
  /\ scanLocal = NoLocal /\ scanErr = ""
  /\ lhResult = NoResult /\ rpc = "idle" /\ chrome = MEDIAN_RUNS
  /\ alive = {} /\ nBrowsers = MEDIAN_RUNS /\ lhr = NoLhr /\ cpc = 0
  /\ shot = NullScreenshot /\ runLog = [FreshLog EXCEPT !.status = "ok"]
  /\ runsStarted = MEDIAN_RUNS
  /\ values = <<>> /\ medianResult = NotCalled
  /\ InitSite

InitMerge ==
  /\ InitAfterRuns
  /\ \E perf \in [RunIndexes -> PerfInputs], seo \in [RunIndexes -> SeoInputs] :
       runs = [k \in RunIndexes |-> MergeRun(k, CategoryReport(k, perf[k], seo[k]))]

NextMerge == RunLighthouseReturn

SpecMerge == InitMerge /\ [][NextMerge]_vars

InitMetrics ==
  /\ InitAfterRuns
  /\ \E id \in Range(metricIds) :
       \E ma \in [RunIndexes -> UNION {MetricAuditInputs(k, id) : k \in RunIndexes}],
          oa \in [RunIndexes -> OtherAuditInputs] :
            /\ \A k \in RunIndexes : ma[k] \in MetricAuditInputs(k, id)
            /\ runs = [k \in RunIndexes |-> MergeRun(k, MetricReport(k, oa[k] \o ma[k]))]

NextMetrics == RunLighthouseReturn

SpecMetrics == InitMetrics /\ [][NextMetrics]_vars

\* --------------------------------------- inputs of the filmstrip extraction
\* n frame items in capture order; the items at the positions in missing have no data
FrameItems(n, missing) ==
  [k \in 1..n |-> [timing |-> k, data |-> IF k \in missing THEN 0 ELSE 1]]

\* a leading block of frames without data, or up to two frames without data
MissingSets(n) == {1..k : k \in 0..n} \cup {{i, j} : i, j \in 1..n}

\* audits['screenshot-thumbnails'].details of the generated reports
FilmstripInputs ==
  UNION {{[type |-> "filmstrip", items |-> FrameItems(n, ms)] : ms \in MissingSets(n)} :
           n \in 0..MaxFrames}
    \cup {[type |-> "table", items |-> FrameItems(n, {})] : n \in 0..MaxFrames}
    \cup {NoFilmstripDetails}

\* runOneScan about to receive the outcome of runLighthouse for a report with the
\* given filmstrip details
InitFilmstrip ==
  /\ InitAfterRuns
  /\ \E details \in FilmstripInputs :
       runs = [k \in RunIndexes |-> MergeRun(k, WorkflowReport(1000, details, 100))]

NextFilmstrip == RunLighthouseReturn \/ Persist

SpecFilmstrip == InitFilmstrip /\ [][NextFilmstrip]_vars

\* ------------------------------------ inputs of the summary extraction
\* native audit scores of the generated reports: null or a number on the 0-1 scale
AuditScoreInputs == {NULL, 400, 890, 895, 900, 950}

\* the audits object as entry list: entry k has the id "audit-k"
AuditList(scores) ==
  [k \in DOMAIN scores |->
     [id |-> "audit-" \o ToString(k), numericValue |-> NULL, displayValue |-> "",
      score |-> scores[k]]]

\* entry k scores ((k + offset) mod modulus) tenths
PatternScores(n, offset, modulus) == [k \in 1..n |-> 100 * ((k + offset) % modulus)]

AuditInputs ==
  UNION {{AuditList(scores) : scores \in [1..n -> AuditScoreInputs]} :
           n \in 0..MaxShortAudits}
    \cup {AuditList(PatternScores(n, offset, modulus)) :
            n \in 0..MaxLongAudits, offset \in 0..8, modulus \in {9, 10}}

\* raw category scores: null, NaN, negative, hundredths of the 0-1 scale, above 1
CategoryScoreInputs ==
  {NULL, NaN, -1000, -10} \cup {10 * k : k \in 0..MaxCentiScore}
    \cup {1500, 2500, 95000, 99500, 150000}

\* runOneLighthouseRun about to kill the browser and return, the audit having
\* returned the given report
InitBeforeKill(report) ==
  /\ req = [route |-> "/scans", acceptsJson |-> FALSE, devices |-> {"mobile"}]
  /\ hpc = "single" /\ res = NoResponse
  /\ mobileScanId = 0 /\ scans = ExistingGroup
  /\ screenshotFiles = {} /\ filmstripFiles = {}
  /\ spc = "lighthouse"
  /\ scanArgs = [formFactor |-> "mobile", runId |-> "", url |-> TheUrl]
  /\ scanLocal = NoLocal /\ scanErr = ""
  /\ lhResult = NoResult /\ runs = <<>> /\ rpc = "kill" /\ chrome = 1
  /\ alive = {1} /\ nBrowsers = 1 /\ lhr = [report EXCEPT !.id = 1] /\ cpc = 0
  /\ shot = [buffer |-> 1, ext |-> "webp", browser |-> 1]
  /\ runLog = [FreshLog EXCEPT !.launches = 1, !.audits = 1, !.captures = 1, !.target = 1]
  /\ runsStarted = 1
  /\ values = <<>> /\ medianResult = NotCalled
  /\ InitSite

InitRecs ==
  \E audits \in AuditInputs :
     InitBeforeKill([WorkflowReport(1000, NoFilmstripDetails, 100) EXCEPT !.audits = audits])

NextRecs == Kill

SpecRecs == InitRecs /\ [][NextRecs]_vars

InitCategories ==
  \E perf \in CategoryScoreInputs, seo \in {NULL, 730, 95000} :
     InitBeforeKill([WorkflowReport(1000, NoFilmstripDetails, 100) EXCEPT
                       !.categories = [c \in CategoryIds |->
                                         IF c = "performance" THEN perf ELSE seo]])

NextCategories == Kill

SpecCategories == InitCategories /\ [][NextCategories]_vars

\* ------------------------------------------------------ a call of median
\* elements of the arrays passed to median
MedianInputs == {NULL, NaN} \cup 1..5

\* const arr = [...values].filter(...).sort(...): filter and sort work on a copy,
\* the caller's array is as it was when median returns
MedianReturn(vals) == [result |-> median(vals), values |-> vals]

CallMedian ==
  /\ medianResult = NotCalled
  /\ medianResult' = MedianReturn(values).result
  /\ values' = MedianReturn(values).values
  /\ UNCHANGED << wfVars, runVars, siteVars >>

InitMedian ==
  /\ req = NoRequest /\ hpc = "idle" /\ res = NoResponse
  /\ mobileScanId = 0 /\ scans = ExistingGroup
  /\ screenshotFiles = {} /\ filmstripFiles = {}
  /\ spc = "idle" /\ scanArgs = NoArgs /\ scanLocal = NoLocal /\ scanErr = ""
  /\ lhResult = NoResult /\ runs = <<>> /\ rpc = "idle" /\ chrome = 0
  /\ alive = {} /\ nBrowsers = 0 /\ lhr = NoLhr /\ cpc = 0
  /\ shot = NullScreenshot /\ runLog = FreshLog /\ runsStarted = 0
  /\ medianResult = NotCalled
  /\ \E n \in 0..MaxMedianLen : values \in [1..n -> MedianInputs]
  /\ InitSite

NextMedian == CallMedian

SpecMedian == InitMedian /\ [][NextMedian]_vars

\* ------------------------------------------------ guest scans (scans.js)
GUEST_SCANS_LIMIT == 2

\* POST /guest/scan requests of the one guest session; below the 5 requests per
\* window that guestScanLimiter lets through
MaxGuestRequests == 3
\* GET /guest/report requests, and the tokens issued before them
MaxReportRequests == 3
MaxTokens == 2

NewGuestReq == [pc |-> "new", acceptsJson |-> FALSE, session |-> NoGuestSession,
                count |-> 0, res |-> ""]

\* typeof req.session.guestScansCount === 'number' ? req.session.guestScansCount : 0
GuestCount(session) ==
  IF session.guestScansCount = NULL THEN 0 ELSE session.guestScansCount

\* router.post('/guest/scan') up to the await: the session middleware has loaded
\* req.session from the store; url check, count check. Of the loaded session only
\* count is used later: both of its fields are assigned after the audit, and the
\* request's session object is dropped with the request.
GuestScanArrive(r) ==
  /\ guestReqs[r].pc = "new"
  /\ \A q \in 1..(r - 1) : guestReqs[q].pc # "new"
  /\ \E acceptsJson \in BOOLEAN, validUrl \in BOOLEAN :
       LET count == GuestCount(guestStore)
           arrived == [guestReqs[r] EXCEPT !.acceptsJson = acceptsJson, !.count = count]
       IN guestReqs' =
            [guestReqs EXCEPT ![r] =
               IF ~validUrl THEN [guestReqs[r] EXCEPT !.pc = "done", !.res = "invalid_url"]
               ELSE IF count >= GUEST_SCANS_LIMIT
               THEN [arrived EXCEPT !.pc = "done", !.res = "limit_reached"]
               ELSE [arrived EXCEPT !.pc = "auditing"]]
  /\ UNCHANGED << wfVars, runVars, medianVars, guestStore, guestReportTokens, guestLog,
                  post, deleteVars, pageVars, modalVars >>

\* setGuestReportToken(report, used): crypto.randomBytes gives a token no entry of
\* the map has; tokens and reports are named after the request that made them
setGuestReportToken(tokens, token, report, used) ==
  tokens \cup {[token |-> token, report |-> report, used |-> used]}

\* the awaited runLighthouse returned or threw: used = count + 1, the session object
\* of the request is updated, a token is stored for a JSON client, session.save starts
GuestAuditReturns(r) ==
  /\ guestReqs[r].pc = "auditing"
  /\ \E ok \in BOOLEAN :
       IF ok
       THEN LET used == guestReqs[r].count + 1
                report == r
                token == r
            IN /\ guestReqs' =
                    [guestReqs EXCEPT ![r].pc = "saving",
                                      ![r].session = [guestScansCount |-> used,
                                                      guestLastReport |-> report],
                                      ![r].res = IF guestReqs[r].acceptsJson
                                                 THEN "token " \o ToString(token) ELSE ""]
               /\ guestReportTokens' =
                    IF guestReqs[r].acceptsJson
                    THEN setGuestReportToken(guestReportTokens, token, report, used)
                    ELSE guestReportTokens
               /\ guestLog' = [guestLog EXCEPT
                                 !.audits = @ + 1,
                                 !.issued = IF guestReqs[r].acceptsJson THEN @ + 1 ELSE @]
       ELSE /\ guestReqs' = [guestReqs EXCEPT ![r].pc = "done", ![r].res = "scan_failed"]
            /\ UNCHANGED << guestReportTokens, guestLog >>
  /\ UNCHANGED << wfVars, runVars, medianVars, guestStore, post, deleteVars, pageVars,
                  modalVars >>

\* callback of req.session.save: the store now holds this request's session object
GuestSessionSaved(r) ==
  /\ guestReqs[r].pc = "saving"
  /\ \E err \in BOOLEAN :
       /\ guestStore' = IF err THEN guestStore ELSE guestReqs[r].session
       /\ guestReqs' =
            [guestReqs EXCEPT ![r].pc = "done",
                              ![r].session = NoGuestSession,
                              ![r].res = IF guestReqs[r].acceptsJson
                                         THEN "redirect /guest/report?t=" \o guestReqs[r].res
                                         ELSE IF err THEN "/?guest_error=session"
                                         ELSE "redirect /guest/report"]
  /\ UNCHANGED << wfVars, runVars, medianVars, guestReportTokens, guestLog, post,
                  deleteVars, pageVars, modalVars >>

\* setTimeout(() => guestReportTokens.delete(token), GUEST_TOKEN_TTL_MS) fires
TokenExpires ==
  /\ \E e \in guestReportTokens : guestReportTokens' = guestReportTokens \ {e}
  /\ UNCHANGED << wfVars, runVars, medianVars, guestStore, guestReqs, guestLog, post,
                  deleteVars, pageVars, modalVars >>

TokensKept(tokens, token) == tokens

\* guestReportTokens.delete(token)
TokensAfterUse(tokens, token) == {e \in tokens : e.token # token}

\* router.get('/guest/report'): by the guest session or by a session without report;
\* t = 0 stands for a request without ?t=
GuestReport ==
  /\ Len(guestLog.served) < MaxReportRequests
  /\ \E t \in 0..guestLog.issued, own \in BOOLEAN :
       LET session == IF own THEN guestStore ELSE NoGuestSession
           stored == {e \in guestReportTokens : e.token = t}
       IN IF t # 0 /\ stored # {}
          THEN /\ guestReportTokens' = TokensAfterUse(guestReportTokens, t)
               /\ guestLog' = [guestLog EXCEPT !.served =
                    Append(@, [token |-> t, own |-> own, source |-> "token",
                               report |-> (CHOOSE e \in stored : TRUE).report])]
          ELSE /\ UNCHANGED guestReportTokens
               /\ guestLog' = [guestLog EXCEPT !.served =
                    Append(@, [token |-> t, own |-> own,
                               source |-> IF session.guestLastReport = 0 THEN "redirect /"
                                          ELSE "session",
                               report |-> session.guestLastReport])]
  /\ UNCHANGED << wfVars, runVars, medianVars, guestStore, guestReqs, post, deleteVars,
                  pageVars, modalVars >>

\* the audit workflow at rest (no signed-in request in progress)
RequestIdle ==
  /\ req = NoRequest /\ hpc = "idle" /\ res = NoResponse
  /\ mobileScanId = 0
  /\ spc = "idle" /\ scanArgs = NoArgs /\ scanLocal = NoLocal /\ scanErr = ""
  /\ lhResult = NoResult /\ runs = <<>> /\ rpc = "idle" /\ chrome = 0
  /\ alive = {} /\ nBrowsers = 0 /\ lhr = NoLhr /\ cpc = 0
  /\ shot = NullScreenshot /\ runLog = FreshLog /\ runsStarted = 0
  /\ values = <<>> /\ medianResult = NotCalled

WorkflowIdle ==
  /\ RequestIdle
  /\ scans = ExistingGroup /\ screenshotFiles = {} /\ filmstripFiles = {}

InitGuest ==
  /\ WorkflowIdle
  /\ guestStore = NoGuestSession
  /\ guestReqs = [r \in 1..MaxGuestRequests |-> NewGuestReq]
  /\ guestReportTokens = {} /\ guestLog = NoGuestLog
  /\ PostIdle /\ DeleteIdle /\ PageIdle /\ ModalIdle

NextGuest ==
  \/ \E r \in 1..MaxGuestRequests :
        GuestScanArrive(r) \/ GuestAuditReturns(r) \/ GuestSessionSaved(r)
  \/ TokenExpires

SpecGuest == InitGuest /\ [][NextGuest]_vars

\* after k guest scans of JSON clients have been answered: token i holds report i,
\* the store holds the session of the request that saved last
InitGuestReport ==
  /\ WorkflowIdle
  /\ guestReqs = <<>>
  /\ \E k \in 0..MaxTokens :
       \E used \in [1..k -> 1..GUEST_SCANS_LIMIT] :
         /\ guestReportTokens = {[token |-> i, report |-> i, used |-> used[i]] : i \in 1..k}
         /\ guestLog = [audits |-> k, issued |-> k, served |-> <<>>]
         /\ IF k = 0 THEN guestStore = NoGuestSession
            ELSE \E i \in 1..k :
                   guestStore = [guestScansCount |-> used[i], guestLastReport |-> i]
  /\ PostIdle /\ DeleteIdle /\ PageIdle /\ ModalIdle

NextGuestReport == GuestReport \/ TokenExpires

SpecGuestReport == InitGuestReport /\ [][NextGuestReport]_vars

\* ------------------------------------- POST routes and their middleware
\* each POST route with the middleware its request passes, in order: routes of the
\* auth router name their middleware in router.post; routes of the scan router
\* declared after router.use(requireAuth) pass the three router.use first
AuthedScanChain == << "requireAuth", "ensureCsrfToken", "validateCsrf", "handler" >>

PostChains ==
  [ login |-> << "redirectIfAuthenticated", "rateLimit", "handler" >>,
    register |-> << "redirectIfAuthenticated", "rateLimit", "handler" >>,
    settings |-> << "requireAuth", "validateCsrf", "handler" >>,
    accountDelete |-> << "requireAuth", "validateCsrf", "handler" >>,
    logout |-> << "validateCsrf", "handler" >>,
    guestScan |-> << "rateLimit", "handler" >>,
    scans |-> << "requireAuth", "ensureCsrfToken", "validateCsrf", "rateLimit", "handler" >>,
    share |-> AuthedScanChain,
    unshare |-> AuthedScanChain,
    deleteBatch |-> AuthedScanChain,
    delete |-> AuthedScanChain,
    rescanBoth |-> AuthedScanChain,
    rescan |-> AuthedScanChain ]

PostRoutes == DOMAIN PostChains

\* req.body._csrf after trim ("" when missing or not a string), and
\* req.session.csrfToken ("" when the session has none)
BodyTokens == {"", "a", "b"}
SessionTokens == {"", "a"}

\* a POST request is received: the session middleware has loaded req.session
PostArrive ==
  /\ post = NoPost
  /\ \E route \in PostRoutes, token \in BodyTokens, csrfToken \in SessionTokens,
        userId \in {0, UserId} :
       post' = [route |-> route, pc |-> "chain", step |-> 1, token |-> token,
                csrfToken |-> csrfToken, userId |-> userId,
                tokenOk |-> (token # "" /\ token = csrfToken),
                status |-> "", handled |-> FALSE, changed |-> FALSE]
  /\ UNCHANGED << wfVars, runVars, medianVars, guestVars, deleteVars, pageVars, modalVars >>

AtMiddleware(name) ==
  /\ post.pc = "chain"
  /\ PostChains[post.route][post.step] = name

PostNext == [post EXCEPT !.step = @ + 1]
PostEnd(status) == [post EXCEPT !.pc = "done", !.status = status]

requireAuth ==
  /\ AtMiddleware("requireAuth")
  /\ post' = IF post.userId # 0 THEN PostNext ELSE PostEnd("redirect /login or 401")
  /\ UNCHANGED << wfVars, runVars, medianVars, guestVars, deleteVars, pageVars, modalVars >>

redirectIfAuthenticated ==
  /\ AtMiddleware("redirectIfAuthenticated")
  /\ post' = IF post.userId # 0 THEN PostEnd("redirect /dashboard") ELSE PostNext
  /\ UNCHANGED << wfVars, runVars, medianVars, guestVars, deleteVars, pageVars, modalVars >>

\* randomBytes(32): a token that no request body holds
ensureCsrfToken ==
  /\ AtMiddleware("ensureCsrfToken")
  /\ post' = IF post.csrfToken = "" THEN [PostNext EXCEPT !.csrfToken = "fresh"]
             ELSE PostNext
  /\ UNCHANGED << wfVars, runVars, medianVars, guestVars, deleteVars, pageVars, modalVars >>

validateCsrf ==
  /\ AtMiddleware("validateCsrf")
  /\ post' = IF post.token = "" \/ post.token # post.csrfToken THEN PostEnd("403")
             ELSE PostNext
  /\ UNCHANGED << wfVars, runVars, medianVars, guestVars, deleteVars, pageVars, modalVars >>

\* express-rate-limit: the window has room or not
rateLimit ==
  /\ AtMiddleware("rateLimit")
  /\ \E room \in BOOLEAN : post' = IF room THEN PostNext ELSE PostEnd("429")
  /\ UNCHANGED << wfVars, runVars, medianVars, guestVars, deleteVars, pageVars, modalVars >>

\* the route's handler runs: it changes state (rows, files, session) unless it
\* answers a rejected body (validation error, unknown id) first
PostHandler ==
  /\ AtMiddleware("handler")
  /\ \E changed \in BOOLEAN :
       post' = [PostEnd("handled") EXCEPT !.handled = TRUE, !.changed = changed]
  /\ UNCHANGED << wfVars, runVars, medianVars, guestVars, deleteVars, pageVars, modalVars >>

InitCsrf ==
  /\ WorkflowIdle /\ GuestIdle /\ PostIdle /\ DeleteIdle /\ PageIdle /\ ModalIdle

NextCsrf ==
  \/ PostArrive
  \/ requireAuth
  \/ redirectIfAuthenticated
  \/ ensureCsrfToken
  \/ validateCsrf
  \/ rateLimit
  \/ PostHandler

SpecCsrf == InitCsrf /\ [][NextCsrf]_vars

\* --------------------------- deleting scans and accounts (scans.js, auth.js)
\* scan rows in the database before a delete request
MaxStoredScans == 3

\* scans 1 and 2 are the requesting user's, the later ones another user's
OwnerOf(id) == IF id <= 2 THEN UserId ELSE OtherUserId

StoredFilmstrip == extractFilmstripFromLhr(WorkflowReport(1000, OneFrame, 100))

\* `${scanId}.${ext}` and filmstripFilePath(scanId)
ScreenshotName(id) == ToString(id) \o ".webp"
FilmstripName(id) == ToString(id) \o ".json"

\* the row runOneScan leaves, with screenshot_path set when the screenshot was written
StoredScan(id, hasShot) ==
  [id |-> id, user_id |-> OwnerOf(id), url |-> TheUrl, formFactor |-> "mobile",
   report_json |-> StoredReport, summary |-> extractSummary(StoredReport),
   run_id |-> "", screenshot_path |-> IF hasShot THEN ScreenshotName(id) ELSE ""]

\* every stored path of the model is <digits>.webp, which the pattern accepts
isSafeScreenshotPath(filename) == filename # ""

\* fs unlink: the file is gone afterwards unless the call failed (ENOENT leaves
\* nothing to remove and is not reported)
Unlink(files, path, fails) == IF fails THEN files ELSE {f \in files : f.path # path}

\* 'DELETE FROM scans WHERE id = ? AND user_id = ?'
deleteScan(rows, scanId, userId) ==
  SelectSeq(rows, LAMBDA row : ~(row.id = scanId /\ row.user_id = userId))

\* `DELETE FROM scans WHERE user_id = ? AND id IN (...)`
deleteScansByIds(rows, userId, ids) ==
  SelectSeq(rows, LAMBDA row : ~(row.user_id = userId /\ row.id \in ids))

\* 'SELECT id, screenshot_path FROM scans WHERE user_id = ? AND screenshot_path IS NOT NULL'
getScanScreenshotPathsByUserId(rows, userId) ==
  SelectSeq(rows, LAMBDA row : row.user_id = userId /\ row.screenshot_path # "")

\* 'DELETE FROM users WHERE id = ?' with scans.user_id ... ON DELETE CASCADE
deleteUserCascade(rows, userId) == SelectSeq(rows, LAMBDA row : row.user_id # userId)

\* the ids of a set in ascending order
RECURSIVE AscendingSeq(_)
AscendingSeq(S) ==
  IF S = {} THEN <<>>
  ELSE LET m == CHOOSE x \in S : \A y \in S : x <= y
       IN << m >> \o AscendingSeq(S \ {m})

\* a delete request is received; before keeps the rows and files it found
DeleteRequest(route) ==
  [route |-> route, pc |-> "start", ids |-> <<>>, i |-> 1, status |-> "",
   unlinkFailed |-> FALSE,
   before |-> [scans |-> scans, screenshotFiles |-> screenshotFiles,
               filmstripFiles |-> filmstripFiles]]

DeleteUnchanged ==
  UNCHANGED << req, hpc, res, mobileScanId, spc, scanArgs, scanLocal, scanErr, lhResult,
               runVars, medianVars, guestVars, post, pageVars, modalVars >>

\* router.post('/scans/delete-batch') up to the loop: ids parsed, NaN dropped, deduplicated
DeleteBatchArrive ==
  /\ del = NoDelete
  /\ \E ids \in SUBSET (1..MaxStoredScans) :
       del' = IF ids = {}
              THEN [DeleteRequest("/scans/delete-batch") EXCEPT
                      !.pc = "done", !.status = "redirect"]
              ELSE [DeleteRequest("/scans/delete-batch") EXCEPT
                      !.pc = "loop", !.ids = AscendingSeq(ids)]
  /\ UNCHANGED << scans, screenshotFiles, filmstripFiles, users >>
  /\ DeleteUnchanged

\* one pass of for (const id of scanIds): the screenshot of the requester's scan is
\* unlinked, then filmstripFilePath(id)
DeleteBatchUnlink ==
  /\ del.route = "/scans/delete-batch" /\ del.pc = "loop"
  /\ \E shotFails \in BOOLEAN, filmFails \in BOOLEAN :
       LET id == del.ids[del.i]
           found == getScanByIdAndUserId(id, UserId)
           hasShot == found # <<>> /\ isSafeScreenshotPath(found[1].screenshot_path)
       IN /\ screenshotFiles' =
               IF hasShot THEN Unlink(screenshotFiles, found[1].screenshot_path, shotFails)
               ELSE screenshotFiles
          /\ filmstripFiles' = Unlink(filmstripFiles, FilmstripName(id), filmFails)
          /\ del' = [del EXCEPT
               !.i = @ + 1,
               !.pc = IF del.i = Len(del.ids) THEN "rows" ELSE "loop",
               !.unlinkFailed = @ \/ (hasShot /\ shotFails) \/ filmFails]
  /\ UNCHANGED << scans, users >>
  /\ DeleteUnchanged

\* db.deleteScansByIds(req.session.userId, scanIds); res.redirect
DeleteBatchRows ==
  /\ del.route = "/scans/delete-batch" /\ del.pc = "rows"
  /\ scans' = deleteScansByIds(scans, UserId, {del.ids[k] : k \in DOMAIN del.ids})
  /\ del' = [del EXCEPT !.pc = "done", !.status = "redirect"]
  /\ UNCHANGED << screenshotFiles, filmstripFiles, users >>
  /\ DeleteUnchanged

\* router.post('/scans/:id/delete') up to the first await
DeleteArrive ==
  /\ del = NoDelete
  /\ \E id \in {NaN} \cup 1..MaxStoredScans :
       del' = IF id = NaN
              THEN [DeleteRequest("/scans/:id/delete") EXCEPT !.pc = "done", !.status = "400"]
              ELSE IF getScanByIdAndUserId(id, UserId) = <<>>
              THEN [DeleteRequest("/scans/:id/delete") EXCEPT
                      !.pc = "done", !.status = "404", !.ids = << id >>]
              ELSE [DeleteRequest("/scans/:id/delete") EXCEPT !.pc = "unlink", !.ids = << id >>]
  /\ UNCHANGED << scans, screenshotFiles, filmstripFiles, users >>
  /\ DeleteUnchanged

\* the two unlinks, db.deleteScan and the answer
DeleteUnlink ==
  /\ del.route = "/scans/:id/delete" /\ del.pc = "unlink"
  /\ \E shotFails \in BOOLEAN, filmFails \in BOOLEAN :
       LET id == del.ids[1]
           scan == getScanByIdAndUserId(id, UserId)[1]
           hasShot == isSafeScreenshotPath(scan.screenshot_path)
       IN /\ screenshotFiles' =
               IF hasShot THEN Unlink(screenshotFiles, scan.screenshot_path, shotFails)
               ELSE screenshotFiles
          /\ filmstripFiles' = Unlink(filmstripFiles, FilmstripName(id), filmFails)
          /\ scans' = deleteScan(scans, id, UserId)
          /\ del' = [del EXCEPT
               !.pc = "done",
               !.status = IF Len(deleteScan(scans, id, UserId)) = Len(scans) THEN "404"
                          ELSE "redirect",
               !.unlinkFailed = (hasShot /\ shotFails) \/ filmFails]
  /\ UNCHANGED users
  /\ DeleteUnchanged

\* router.post('/account/delete') up to the loop: the password is compared, the rows
\* with a screenshot_path are read
AccountDeleteArrive ==
  /\ del = NoDelete
  /\ \E match \in BOOLEAN :
       LET screenshots == getScanScreenshotPathsByUserId(scans, UserId)
           ids == [k \in DOMAIN screenshots |-> screenshots[k].id]
       IN del' = IF ~match
                 THEN [DeleteRequest("/account/delete") EXCEPT
                         !.pc = "done", !.status = "redirect /settings?error=delete_password"]
                 ELSE [DeleteRequest("/account/delete") EXCEPT
                         !.pc = IF ids = <<>> THEN "user" ELSE "loop", !.ids = ids]
  /\ UNCHANGED << scans, screenshotFiles, filmstripFiles, users >>
  /\ DeleteUnchanged

\* one pass of for (const row of screenshots)
AccountDeleteUnlink ==
  /\ del.route = "/account/delete" /\ del.pc = "loop"
  /\ \E shotFails \in BOOLEAN :
       /\ screenshotFiles' = Unlink(screenshotFiles, ScreenshotName(del.ids[del.i]), shotFails)
       /\ del' = [del EXCEPT
            !.i = @ + 1,
            !.pc = IF del.i = Len(del.ids) THEN "user" ELSE "loop",
            !.unlinkFailed = @ \/ shotFails]
  /\ UNCHANGED << scans, filmstripFiles, users >>
  /\ DeleteUnchanged

\* db.deleteUser(user.id), req.session.destroy, res.redirect('/register?deleted=1')
AccountDeleteUser ==
  /\ del.route = "/account/delete" /\ del.pc = "user"
  /\ users' = users \ {UserId}
  /\ scans' = deleteUserCascade(scans, UserId)
  /\ del' = [del EXCEPT !.pc = "done", !.status = "redirect /register?deleted=1"]
  /\ UNCHANGED << screenshotFiles, filmstripFiles >>
  /\ DeleteUnchanged

\* the rows and files that scans of two users have left: a row has a screenshot
\* file exactly when its screenshot_path is set, and may have a filmstrip file
InitDelete ==
  /\ RequestIdle
  /\ \E hasShot \in [1..MaxStoredScans -> BOOLEAN], hasFilm \in [1..MaxStoredScans -> BOOLEAN] :
       /\ scans = [id \in 1..MaxStoredScans |-> StoredScan(id, hasShot[id])]
       /\ screenshotFiles =
            {[path |-> ScreenshotName(id), buffer |-> 1] : id \in {x \in 1..MaxStoredScans : hasShot[x]}}
       /\ filmstripFiles =
            {[path |-> FilmstripName(id), frames |-> StoredFilmstrip.frames,
              chromeVersion |-> StoredFilmstrip.chromeVersion] :
               id \in {x \in 1..MaxStoredScans : hasFilm[x]}}
  /\ GuestIdle /\ PostIdle /\ DeleteIdle /\ PageIdle /\ ModalIdle

NextDelete ==
  \/ DeleteBatchArrive
  \/ DeleteBatchUnlink
  \/ DeleteBatchRows
  \/ DeleteArrive
  \/ DeleteUnlink
  \/ AccountDeleteArrive
  \/ AccountDeleteUnlink
  \/ AccountDeleteUser

SpecDelete == InitDelete /\ [][NextDelete]_vars

\* ------------------------------------------- scan history pages (scans.js)
SCANS_PER_PAGE == 6

\* requested page numbers, and groups counted or loaded
MaxPage == 4
MaxGroups == 13

\* parseInt(req.query.page, 10): NaN for a missing or non-numeric parameter
PageInputs == {NaN} \cup (-1..MaxPage)

\* Math.max(1, parseInt(req.query.page, 10) || 1)
RequestedPage(parsed) ==
  LET orOne == IF parsed = NaN \/ parsed = 0 THEN 1 ELSE parsed
  IN IF orOne < 1 THEN 1 ELSE orOne

\* Math.ceil(n / SCANS_PER_PAGE) for n >= 0
CeilPages(n) == (n + SCANS_PER_PAGE - 1) \div SCANS_PER_PAGE

totalPagesFromCount(totalCount, groupsAvailable) ==
  IF CeilPages(totalCount) < 1 THEN 1 ELSE CeilPages(totalCount)

\* Math.max(1, Math.ceil(Math.min(totalCount, groupsAvailable) / SCANS_PER_PAGE))
totalPages(totalCount, groupsAvailable) ==
  LET least == IF totalCount < groupsAvailable THEN totalCount ELSE groupsAvailable
  IN IF CeilPages(least) < 1 THEN 1 ELSE CeilPages(least)

\* Array.prototype.slice(start, end) for 0 <= start <= end
Slice(seq, start, end) ==
  LET last == IF end < Len(seq) THEN end ELSE Len(seq)
  IN IF start >= last THEN <<>> ELSE SubSeq(seq, start + 1, last)

\* router.get('/scans'): allGroups are the groups of the loaded rows, newest first
GetScans ==
  /\ pageView = NoPage
  /\ LET page == RequestedPage(pageReq.page)
         allGroups == [g \in 1..pageReq.groupsAvailable |-> g]
         pages == totalPages(pageReq.totalCount, Len(allGroups))
         currentPage == IF page < pages THEN page ELSE pages
         offset == (currentPage - 1) * SCANS_PER_PAGE
     IN pageView' = [page |-> currentPage, totalPages |-> pages,
                     totalCount |-> pageReq.totalCount,
                     scanGroups |-> Slice(allGroups, offset, offset + SCANS_PER_PAGE)]
  /\ UNCHANGED << wfVars, runVars, medianVars, guestVars, post, deleteVars, pageReq,
                  modalVars >>

\* a GET /scans request with its page parameter, and what the database holds:
\* the number of groups counted and the number of groups among the loaded rows
InitPage ==
  /\ WorkflowIdle /\ GuestIdle /\ PostIdle /\ DeleteIdle /\ ModalIdle
  /\ \E page \in PageInputs, totalCount \in 0..MaxGroups, groupsAvailable \in 0..MaxGroups :
       pageReq = [page |-> page, totalCount |-> totalCount,
                  groupsAvailable |-> groupsAvailable]
  /\ pageView = NoPage

NextPage == GetScans

SpecPage == InitPage /\ [][NextPage]_vars

\* -------------------------------------------------- modal dialogs (modal.js)
\* dialogs requested, and choices offered by showChoice
MaxDialogs == 3
MaxChoices == 2

ChoiceValues == [k \in 1..MaxChoices |-> "choice-" \o ToString(k)]

ModalUnchanged ==
  UNCHANGED << wfVars, runVars, medianVars, guestVars, post, deleteVars, pageVars >>

\* new Promise(function (resolve) { resolvePromise = resolve; show(message, config) }):
\* show sets isConfirm and isChoice, replaces the buttons (each with the value its
\* click passes to close), unhides the modal and adds the keydown listener;
\* addEventListener does not add the same function twice
ShowDialog(mode, confirm, choice, clickValues) ==
  /\ promises' = Append(promises, [mode |-> mode, resolutions |-> 0, result |-> "pending",
                                   closedBy |-> ""])
  /\ resolvePromise' = Len(promises) + 1
  /\ isConfirm' = confirm
  /\ isChoice' = choice
  /\ buttons' = clickValues
  /\ modalHidden' = FALSE
  /\ keydownListeners' = keydownListeners \cup {"onKeydown"}
  /\ ModalUnchanged

\* addButton(okLabel, ..., null, undefined): the click passes value, null
showAlert ==
  /\ Len(promises) < MaxDialogs
  /\ ShowDialog("alert", FALSE, FALSE, << "null" >>)

showConfirm ==
  /\ Len(promises) < MaxDialogs
  /\ ShowDialog("confirm", TRUE, FALSE, << "false", "true" >>)

\* one button per choice, then the cancel button
showChoice ==
  /\ Len(promises) < MaxDialogs
  /\ ShowDialog("choice", FALSE, TRUE, ChoiceValues \o << "null" >>)

\* close(result): a promise settles with the first value passed to its resolve;
\* closedBy keeps the event whose handler made the call
close(result, event) ==
  /\ modalHidden' = TRUE
  /\ promises' =
       IF resolvePromise # 0
       THEN [promises EXCEPT ![resolvePromise] =
               [@ EXCEPT !.resolutions = @ + 1, !.closedBy = event,
                         !.result = IF promises[resolvePromise].resolutions = 0
                                    THEN result ELSE @]]
       ELSE promises
  /\ resolvePromise' = 0
  /\ keydownListeners' = keydownListeners \ {"onKeydown"}
  /\ UNCHANGED << isConfirm, isChoice, buttons >>
  /\ ModalUnchanged

\* click on a button of the open modal
ButtonClick ==
  /\ ~modalHidden
  /\ \E b \in DOMAIN buttons : close(buttons[b], "click")

\* click on the backdrop of the open modal
BackdropClick ==
  /\ ~modalHidden
  /\ close(IF isConfirm THEN "false" ELSE "null", "backdrop")

\* onKeydown for the Escape key, while the listener is registered
onKeydown ==
  /\ "onKeydown" \in keydownListeners
  /\ close(IF isConfirm THEN "false" ELSE "null", "Escape")

InitModal ==
  /\ WorkflowIdle /\ GuestIdle /\ PostIdle /\ DeleteIdle /\ PageIdle /\ ModalIdle

NextModal ==
  \/ showAlert
  \/ showConfirm
  \/ showChoice
  \/ ButtonClick
  \/ BackdropClick
  \/ onKeydown

SpecModal == InitModal /\ [][NextModal]_vars

\* ------------------------------------------------------------ properties
\* a call of runOneLighthouseRun has returned or thrown
RunFinished == rpc = "idle" /\ runLog.status # "running"

C2_CaptureFailureNotFatal ==
  runLog.capFail # "" =>
    /\ rpc \in {"kill", "catchKill", "idle"}
    /\ IsNull(shot)
    /\ (rpc = "catchKill" => runLog.killRejected)
    /\ (RunFinished =>
          /\ Len(runLog.kills) >= 1
          /\ (runLog.status = "ok" <=> ~runLog.killRejected)
          /\ (runLog.status = "ok" => IsNull(runs[Len(runs)].screenshot)))

C2_Witness ==
  /\ RunFinished /\ runLog.capFail = "goto" /\ runLog.status = "ok"
  /\ IsNull(runs[Len(runs)].screenshot) /\ Len(runLog.kills) = 1

\* C3: a pass makes exactly 3 runs when none fails, one after another: a launch happens
\* only when no browser of the request is alive, so at most one browser is alive at any
\* time, across the mobile and the desktop pass as well.
C3_ThreeSequentialRuns ==
  /\ Cardinality(alive) <= 1
  /\ (rpc = "launch" => alive = {})
  /\ runsStarted <= 3
  /\ runsStarted = Len(runs)
       + (IF rpc # "idle" \/ runLog.status \in {"failed", "launchFailed"} THEN 1 ELSE 0)
  /\ (~IsNull(lhResult) => runsStarted = 3 /\ Len(runs) = 3)
  /\ \A i, j \in DOMAIN runs : i # j => runs[i].report.id # runs[j].report.id

C3_Witness ==
  /\ hpc = "desktop" /\ rpc = "kill" /\ runsStarted = 3 /\ alive = {chrome}
  /\ nBrowsers = 2 * MEDIAN_RUNS

\* C4: once a run has failed, the pass starts no further run, merges nothing and throws
\* that run's error; a merged outcome exists only when all three runs succeeded.
C4_FailedRunAbortsPass ==
  /\ (runLog.status \in {"failed", "launchFailed"} =>
        /\ rpc = "idle" /\ spc \in {"thrown", "idle"}
        /\ runsStarted = Len(runs) + 1
        /\ IsNull(lhResult)
        /\ scanErr = IF runLog.status = "launchFailed"
                     THEN LaunchErrorMessage(runLog.err)
                     ELSE RunErrorMessage(runLog.err))
  /\ (~IsNull(lhResult) => Len(runs) = 3 /\ runsStarted = 3 /\ runLog.status = "ok")

C4_Witness ==
  /\ runLog.status = "failed" /\ Len(runs) = 2 /\ spc = "thrown" /\ IsNull(lhResult)

\* rows inserted by the request being served
NewRows == SubSeq(scans, Len(ExistingGroup) + 1, Len(scans))

TwoDevice == req.devices = {"mobile", "desktop"}

\* messages of the errors runOneScan can throw
ErrorMessages ==
  {LaunchErrorMessage(c) : c \in {"ECONNREFUSED", "error"}}
    \cup {RunErrorMessage(c) : c \in {"ECONNREFUSED", "error", "kill error"}}
    \cup {"database error"}

TotalFailureResponses == {ScanFailed(req, m) : m \in ErrorMessages}

SuccessResponses == {ScanSucceeded(req, id) : id \in 1..Len(scans)}

\* C10: in a two-device request the desktop pass runs only once the mobile row exists;
\* mobile ok + desktop failed leaves exactly the mobile row and a response that is
\* neither a success response nor a total-failure response; mobile failed leaves no row
\* and never starts the desktop pass; both ok leaves two rows.
C10_TwoDeviceOutcome ==
  TwoDevice =>
    /\ (hpc = "mobile" =>
          /\ scanArgs.formFactor = "mobile"
          /\ Len(NewRows) <= 1
          /\ (spc \in {"lighthouse", "persist", "thrown"} => NewRows = <<>>))
    /\ (scanArgs.formFactor = "desktop" =>
          /\ hpc \in {"desktop", "done"}
          /\ Len(NewRows) >= 1
          /\ NewRows[1].formFactor = "mobile" /\ NewRows[1].id = mobileScanId)
    /\ (hpc = "done" /\ scanArgs.formFactor = "desktop" /\ scanErr # "" =>
          /\ Len(NewRows) = 1
          /\ res.status # 0
          /\ res \notin TotalFailureResponses
          /\ res \notin SuccessResponses)
    /\ (hpc = "done" /\ scanArgs.formFactor = "desktop" /\ scanErr = "" =>
          /\ Len(NewRows) = 2 /\ NewRows[2].formFactor = "desktop"
          /\ res \in SuccessResponses)
    /\ (hpc = "done" /\ scanArgs.formFactor = "mobile" =>
          /\ NewRows = <<>>
          /\ res \in TotalFailureResponses)

C10_Witness ==
  /\ TwoDevice /\ hpc = "done" /\ scanArgs.formFactor = "desktop" /\ scanErr # ""
  /\ req.route = "/scans/rescan-both" /\ ~req.acceptsJson /\ Len(NewRows) = 1

\* ------------------------------------------- properties of the merged outcome
Merged == ~IsNull(lhResult) /\ Len(runs) = MEDIAN_RUNS

PerfOf(k) == CatOf(runs[k].summary, "performance")

HasPerf(k) == PerfOf(k) # NULL

\* the element of rank r (0-based) of the values of s in ascending order
OrderStat(s, r) ==
  CHOOSE v \in Range(s) :
    /\ Cardinality({i \in DOMAIN s : s[i] < v}) <= r
    /\ r < Cardinality({i \in DOMAIN s : s[i] <= v})

\* twice the median of a non-empty sequence of numbers, by order statistics
MedianHalves(s) == OrderStat(s, (Len(s) - 1) \div 2) + OrderStat(s, Len(s) \div 2)

\* C5: report, screenshot and the summary's recommendations of the merged outcome all
\* come from one and the same run.
C5_OneRepresentativeRun ==
  Merged =>
    \E k \in DOMAIN runs :
      /\ lhResult.report = runs[k].report
      /\ lhResult.screenshot = runs[k].screenshot
      /\ lhResult.summary.recommendations = runs[k].summary.recommendations

C5_Witness ==
  /\ Merged /\ lhResult.report.id = 2 /\ lhResult.screenshot.browser = 2
  /\ lhResult.summary.recommendations = runs[2].summary.recommendations
  /\ lhResult.summary.recommendations # runs[1].summary.recommendations
  /\ ~HasPerf(1) /\ HasPerf(2) /\ HasPerf(3)

\* C6 as stated: whenever the runs have a median performance score, the run kept has a
\* performance score of its own, no run with a score is closer to the median, and no
\* earlier run with a score is equally close.
C6_ClosestToMedianEarliest ==
  Merged /\ (\E k \in DOMAIN runs : HasPerf(k)) =>
    LET m == MedianHalves(PerfScores(runs))
        b == lhResult.report.id
        dist(k) == Abs(2 * PerfOf(k) - m)
    IN /\ HasPerf(b)
       /\ \A j \in DOMAIN runs : HasPerf(j) => dist(b) <= dist(j)
       /\ \A j \in DOMAIN runs : HasPerf(j) /\ j < b => dist(j) > dist(b)

\* C7: when all three runs report a performance score, the merged summary's performance
\* score is the performance score of the run whose report and screenshot are kept.
C7_MergedPerfIsRepresentativePerf ==
  Merged /\ (\A k \in DOMAIN runs : HasPerf(k)) =>
    /\ "performance" \in DOMAIN lhResult.summary.categories
    /\ lhResult.summary.categories["performance"] = PerfOf(lhResult.report.id)

C7_Witness ==
  /\ Merged /\ PerfOf(1) = 60 /\ PerfOf(2) = 80 /\ PerfOf(3) = 70
  /\ lhResult.report.id = 3 /\ lhResult.summary.categories["performance"] = 70

\* scores of category id over the runs that report it, in run order
Reported(id) == SelectSeq([k \in DOMAIN runs |-> CatOf(runs[k].summary, id)], NotNull)

\* C8: the merged category keys are exactly the first run's keys; each value is the
\* rounded median of the scores reported for that key, an integer in 0..100 between the
\* smallest and the largest reported score.
C8_MergedCategories ==
  Merged =>
    /\ DOMAIN lhResult.summary.categories = DOMAIN runs[1].summary.categories
    /\ \A id \in DOMAIN lhResult.summary.categories :
         LET v == lhResult.summary.categories[id]
             h == MedianHalves(Reported(id))
         IN /\ v \in 0..100
            /\ 2 * v \in {h, h + 1}
            /\ \E a \in Range(Reported(id)) : a <= v
            /\ \E a \in Range(Reported(id)) : v <= a

C8_Witness ==
  /\ Merged
  /\ DOMAIN runs[1].summary.categories = {"performance"}
  /\ "seo" \in DOMAIN runs[2].summary.categories
  /\ ~HasPerf(2) /\ PerfOf(1) = 30 /\ PerfOf(3) = 100
  /\ lhResult.summary.categories = [c \in {"performance"} |-> 65]

\* the audit entry of run k's report for metric id, by the report's own audit list
ReportsMetric(k, id) ==
  \E a \in DOMAIN runs[k].report.audits :
    runs[k].report.audits[a].id = id /\ runs[k].report.audits[a].numericValue # NULL

ReportedAudit(k, id) ==
  runs[k].report.audits[CHOOSE a \in DOMAIN runs[k].report.audits :
                           runs[k].report.audits[a].id = id]

FirstReporting(id) ==
  CHOOSE k \in DOMAIN runs :
    ReportsMetric(k, id) /\ \A j \in DOMAIN runs : ReportsMetric(j, id) => k <= j

ReportedValues(id) ==
  LET ks == {k \in DOMAIN runs : ReportsMetric(k, id)}
      vals == [k \in DOMAIN runs |->
                 IF k \in ks THEN ReportedAudit(k, id).numericValue ELSE NULL]
  IN SelectSeq(vals, NotNull)

\* C9: a merged metric exists exactly for the allow-listed ids some run reports; its
\* value is the median of the reported values and its displayValue is the one of the
\* first run that reports the metric; no summary holds an id outside the allow-list.
C9_MergedMetrics ==
  Merged =>
    /\ DOMAIN lhResult.summary.metrics \subseteq Range(metricIds)
    /\ \A k \in DOMAIN runs : DOMAIN runs[k].summary.metrics \subseteq Range(metricIds)
    /\ \A id \in Range(metricIds) :
         /\ id \in DOMAIN lhResult.summary.metrics
              <=> \E k \in DOMAIN runs : ReportsMetric(k, id)
         /\ (id \in DOMAIN lhResult.summary.metrics =>
               LET first == ReportedAudit(FirstReporting(id), id)
               IN /\ lhResult.summary.metrics[id].value = MedianHalves(ReportedValues(id))
                  /\ lhResult.summary.metrics[id].displayValue =
                       IF first.displayValue # "" THEN first.displayValue
                       ELSE JSString(first.numericValue))

C9_Witness ==
  /\ Merged
  /\ ~ReportsMetric(1, "speed-index")
  /\ ReportsMetric(2, "speed-index") /\ ReportsMetric(3, "speed-index")
  /\ ReportsMetric(3, OtherAuditId)
  /\ lhResult.summary.metrics["speed-index"] = [value |-> 3, displayValue |-> "shown by run 2"]

\* --------------------------------------------- properties of the persistence
\* the pass being served has inserted its row
RowCreated == scanLocal.scanId # 0

RowsOf(id) == {k \in DOMAIN scans : scans[k].id = id}

Attempted(artifact) ==
  \E k \in DOMAIN scanLocal.attempts : scanLocal.attempts[k].artifact = artifact

\* the report of the run runLighthouse kept, as the run returned it
PreStripReport == runs[LighthouseBestRun(runs)].report

\* C11: once the pass has inserted its row, a failure of mkdir or writeFile for the
\* filmstrip or the screenshot never removes or changes the row (only a successful
\* screenshot save sets its screenshot_path) and never makes the pass throw: the pass
\* returns the id of the new row and the handler answers with success.  A failed
\* filmstrip save is followed by the screenshot save whenever there is a screenshot.
C11_ArtifactFailureKeepsRow ==
  /\ \A k \in DOMAIN scans : scans[k].id = k
  /\ (RowCreated =>
        /\ scanLocal.scanId = Len(scans)
        /\ spc \in {"filmstrip", "screenshot", "returned", "idle"}
        /\ scanErr = ""
        /\ LET row == scans[scanLocal.scanId]
           IN /\ [row EXCEPT !.screenshot_path = ""]
                   = NewScanRow(scanLocal.scanId, scanArgs, row.report_json, lhResult.summary)
              /\ row.screenshot_path # "" =>
                   \E k \in DOMAIN scanLocal.attempts :
                      scanLocal.attempts[k] = [artifact |-> "screenshot", failAt |-> "none"]
        /\ (spc \in {"returned", "idle"} /\ HasScreenshot(scanLocal.screenshot) =>
              Attempted("screenshot"))
        /\ (spc \in {"screenshot", "returned", "idle"} /\ ~IsNull(scanLocal.filmstripPayload) =>
              Attempted("filmstrip"))
        /\ (hpc = "done" =>
              res = ScanSucceeded(req, IF req.devices = {"mobile", "desktop"}
                                       THEN mobileScanId ELSE scanLocal.scanId)))

C11_Witness ==
  /\ req.route = "/scans/:id/rescan" /\ hpc = "done" /\ RowCreated
  /\ scanLocal.attempts = << [artifact |-> "filmstrip", failAt |-> "writeFile"],
                             [artifact |-> "screenshot", failAt |-> "mkdir"] >>
  /\ Cardinality(RowsOf(scanLocal.scanId)) = 1
  /\ filmstripFiles = {} /\ screenshotFiles = {}
  /\ res = ScanSucceeded(req, scanLocal.scanId)

\* C12: the filmstrip payload is taken from the report before it is stripped and the
\* report is stripped before it is serialized: the filmstrip file of a scan holds the
\* frames the kept run's report had, the stored report equals that report with its
\* frame items removed, and no row's report_json holds frame items.
C12_ExtractThenStripThenStore ==
  /\ \A k \in DOMAIN scans :
        IsNull(scans[k].report_json) \/ scans[k].report_json.filmstrip.items = <<>>
  /\ \A f \in filmstripFiles : f.frames # <<>>
  /\ (spc \in {"filmstrip", "screenshot", "returned", "thrown"} /\ ~IsNull(lhResult) =>
        lhResult.report = [PreStripReport EXCEPT !.filmstrip.items = <<>>])
  /\ (RowCreated =>
        LET row == scans[scanLocal.scanId]
            frames == SelectSeq(PreStripReport.filmstrip.items, HasData)
        IN /\ (~IsNull(row.report_json) =>
                 row.report_json = [PreStripReport EXCEPT !.filmstrip.items = <<>>])
           /\ (IsNull(scanLocal.filmstripPayload) <=> frames = <<>>)
           /\ (frames # <<>> => scanLocal.filmstripPayload.frames = frames)
           /\ \A f \in filmstripFiles :
                 f.path = ToString(scanLocal.scanId) \o ".json" => f.frames = frames)

C12_Witness ==
  /\ RowCreated /\ spc = "returned"
  /\ PreStripReport.filmstrip.items # <<>>
  /\ ~IsNull(scans[scanLocal.scanId].report_json)
  /\ scans[scanLocal.scanId].report_json.filmstrip.items = <<>>
  /\ \E f \in filmstripFiles :
        /\ f.path = ToString(scanLocal.scanId) \o ".json"
        /\ f.frames = PreStripReport.filmstrip.items

\* C13: the extraction returns at most 25 frames, each with data, in the order of the
\* report's items (the first 25 items when at least 25 items lead the list with data;
\* all items with data when the list has at most 25 items); it returns null when the
\* details are absent or not of type filmstrip, the list is empty or no item has data.
C13_AtMost25FramesWithData ==
  RowCreated =>
    LET details == PreStripReport.filmstrip
        items == details.items
        payload == scanLocal.filmstripPayload
    IN /\ (details.type # "filmstrip" \/ items = <<>>
             \/ (\A k \in DOMAIN items : items[k].data = 0) => IsNull(payload))
       /\ (~IsNull(payload) =>
             /\ Len(payload.frames) \in 1..25
             /\ \A i \in DOMAIN payload.frames :
                   /\ payload.frames[i].data > 0
                   /\ payload.frames[i].timing \in DOMAIN items
                   /\ payload.frames[i] = items[payload.frames[i].timing]
             /\ \A i, j \in DOMAIN payload.frames :
                   i < j => payload.frames[i].timing < payload.frames[j].timing)
       /\ (details.type = "filmstrip" /\ Len(items) >= 25
             /\ (\A k \in 1..25 : items[k].data > 0) =>
             ~IsNull(payload) /\ payload.frames = SubSeq(items, 1, 25))
       /\ (details.type = "filmstrip" /\ Len(items) <= 25
             /\ (\E k \in DOMAIN items : items[k].data > 0) =>
             /\ ~IsNull(payload)
             /\ Len(payload.frames) = Cardinality({k \in DOMAIN items : items[k].data > 0}))

C13_Witness ==
  /\ RowCreated /\ ~IsNull(scanLocal.filmstripPayload)
  /\ Len(PreStripReport.filmstrip.items) = 40
  /\ \A k \in 1..40 : PreStripReport.filmstrip.items[k].data > 0
  /\ scanLocal.filmstripPayload.frames = SubSeq(PreStripReport.filmstrip.items, 1, 25)

\* ------------------------------------- properties of the summary extraction
\* the run has returned its result (specifications that start before the kill)
FirstRunReturned == Len(runs) = 1 /\ rpc = "idle"

Recommendations == runs[1].summary.recommendations

\* positions of the audits with a numeric native score below 0.9
Qualifying == {k \in DOMAIN lhr.audits :
                 IsNumber(lhr.audits[k].score) /\ lhr.audits[k].score < 900}

PositionOf(id) == CHOOSE k \in DOMAIN lhr.audits : lhr.audits[k].id = id

C15_ScoreBelow90 ==
  FirstRunReturned =>
    \A i \in DOMAIN Recommendations :
       Recommendations[i].score \in 0..100 /\ Recommendations[i].score < 90

\* C16: a category with raw score s in [0, 1] gets round(100 s); a raw score above 1 is
\* taken as a percentage, rounded and capped at 100; a null, NaN or negative raw score
\* leaves the category out; every value kept is an integer in 0..100
\* (0.73 gives 73, 95 gives 95, 150 gives 100, -1 gives no entry).
C16_CategoryScoreNormalized ==
  FirstRunReturned =>
    \A id \in DOMAIN lhr.categories :
       LET s == lhr.categories[id]
           cats == runs[1].summary.categories
       IN /\ (s \in {NULL, NaN} \/ s < 0 => id \notin DOMAIN cats)
          /\ (s \in 0..1000 /\ s % 10 = 0 => id \in DOMAIN cats /\ cats[id] = s \div 10)
          /\ (s > 1000 =>
                /\ id \in DOMAIN cats
                /\ cats[id] = IF s >= 100000 THEN 100 ELSE (s + 500) \div 1000)
          /\ (id \in DOMAIN cats => cats[id] \in 0..100)
          /\ (s = 730 => cats[id] = 73)
          /\ (s = 95000 => cats[id] = 95)
          /\ (s = 150000 => cats[id] = 100)
          /\ (s = -1000 => id \notin DOMAIN cats)

C16_Witness ==
  /\ FirstRunReturned
  /\ lhr.categories["performance"] = 150000 /\ lhr.categories["seo"] = 730
  /\ runs[1].summary.categories = [c \in CategoryIds |->
                                     IF c = "performance" THEN 100 ELSE 73]

\* ---------------------------------------------------- properties of median
\* the elements of s that are numbers, in the order of s
Numbers(s) == SelectSeq(s, IsNumber)

\* C17: a call of median leaves the caller's array as it was and returns null when the
\* array has no number, the middle number when it has an odd count of numbers and the
\* mean of the two middle numbers when the count is even (results in halves:
\* median([]) = null, median([5]) = 5, median([1,2,3,4]) = 2.5, median([3,1,2]) = 2).
C17_MedianOfNumbers ==
  [][medianResult' # medianResult =>
       /\ values' = values
       /\ medianResult' = IF Numbers(values) = <<>> THEN NULL
                          ELSE MedianHalves(Numbers(values))
       /\ (values = <<>> => medianResult' = NULL)
       /\ (values = << 5 >> => medianResult' = 2 * 5)
       /\ (values = << 1, 2, 3, 4 >> => medianResult' = 5)
       /\ (values = << 3, 1, 2 >> => medianResult' = 2 * 2)
       /\ (values = << NULL, 4, NaN, 1 >> => medianResult' = 5)]_vars

C17_Witness == values = << 1, 2, 3, 4 >> /\ medianResult = 5

\* ------------------------------------------ properties of the stored report
\* C18: the report_json of every row is null or a serialized report of at most
\* 5 * 1024 * 1024 characters; when the stripped report of the kept run is longer the
\* row is still inserted, with report_json null and the summary, and when it is not
\* longer the row holds it.
C18_ReportSizeCap ==
  /\ \A k \in DOMAIN scans :
        IsNull(scans[k].report_json) \/ JSONLength(scans[k].report_json) <= 5 * 1024 * 1024
  /\ (RowCreated =>
        LET row == scans[scanLocal.scanId]
            stripped == [PreStripReport EXCEPT !.filmstrip.items = <<>>]
        IN /\ row.summary = lhResult.summary
           /\ (JSONLength(stripped) > 5 * 1024 * 1024 => IsNull(row.report_json))
           /\ (JSONLength(stripped) <= 5 * 1024 * 1024 => row.report_json = stripped))

C18_Witness ==
  /\ RowCreated /\ spc = "returned" /\ req.route = "/scans/:id/rescan"
  /\ JSONLength(PreStripReport) = 5 * 1024 * 1024 + 1
  /\ IsNull(scans[scanLocal.scanId].report_json)
  /\ scans[scanLocal.scanId].summary = lhResult.summary
  /\ scans[scanLocal.scanId].summary.chromeVersion = "120.0"

\* ---------------------------------------------- properties of a failed run
\* messages of a launch failure and of a mid-run failure
LaunchFailureMessages == {LaunchErrorMessage(c) : c \in {"ECONNREFUSED", "error"}}

RunFailureMessages == {RunErrorMessage(c) : c \in {"ECONNREFUSED", "error", "kill error"}}

C20_CaptureInLaunchedBrowser ==
  /\ (rpc = "audit" =>
        /\ runLog.launches = 1 /\ runLog.audits = 0 /\ runLog.captures = 0
        /\ runLog.kills = <<>> /\ chrome \in alive /\ IsNull(lhr))
  /\ (rpc = "capture" =>
        /\ runLog.launches = 1 /\ runLog.audits = 1 /\ runLog.captures = 1
        /\ ~IsNull(lhr) /\ lhr.id = chrome
        /\ runLog.kills = <<>>
        /\ alive = {chrome} /\ nBrowsers = chrome)
  /\ (runLog.target # 0 => runLog.target = chrome /\ runLog.captures = 1)
  /\ (~IsNull(shot) => shot.browser = chrome)
  /\ (rpc = "kill" => runLog.captures = 1 /\ runLog.kills = <<>> /\ chrome \in alive)
  /\ (runLog.kills # <<>> => runLog.launches = 1)
  /\ (RunFinished /\ runLog.status = "ok" =>
        /\ runLog.launches = 1 /\ runLog.audits = 1 /\ runLog.captures = 1
        /\ runLog.kills = << chrome >> /\ nBrowsers = chrome)
  /\ \A k \in DOMAIN runs :
        ~IsNull(runs[k].screenshot) => runs[k].screenshot.browser = runs[k].report.id

C20_Witness ==
  /\ RunFinished /\ runLog.status = "ok" /\ Len(runs) = 2
  /\ ~IsNull(shot) /\ shot.buffer = 1 /\ shot.browser = chrome /\ runLog.target = chrome
  /\ chrome = 2 /\ nBrowsers = 2 /\ alive = {}

\* ------------------------------------ properties of the later behaviour claims
\* C26 as stated: when at least one run reports a performance score, the run whose
\* report and screenshot are kept reports one.
C26_SelectedRunHasPerf ==
  Merged /\ (\E k \in DOMAIN runs : HasPerf(k)) => HasPerf(lhResult.report.id)

\* C27 as stated: a run in which the kill call of the success path rejected (audit,
\* extraction and capture being over) still ends as a returned run, not as a
\* 'Lighthouse run failed' error.
C27_KillRejectionNotFatal ==
  RunFinished /\ runLog.killRejected =>
    /\ runLog.status = "ok"
    /\ scanErr \notin RunFailureMessages

\* C28: a row has a screenshot_path only if the file <id>.<ext> of that row exists, the
\* save of that file having succeeded before the update; a pass whose outcome has no
\* screenshot (null or empty buffer), or whose mkdir or writeFile failed, leaves the
\* path of its row empty and writes no file for it.
C28_PathOnlyAfterWrite ==
  /\ \A k \in DOMAIN scans :
        scans[k].screenshot_path # "" =>
          /\ scans[k].screenshot_path = ToString(scans[k].id) \o ".webp"
          /\ \E f \in screenshotFiles : f.path = scans[k].screenshot_path /\ f.buffer > 0
  /\ (RowCreated =>
        LET row == scans[scanLocal.scanId]
            name == ToString(scanLocal.scanId) \o ".webp"
            saved == \E k \in DOMAIN scanLocal.attempts :
                        scanLocal.attempts[k] = [artifact |-> "screenshot", failAt |-> "none"]
            notWritten == \E k \in DOMAIN scanLocal.attempts :
                             /\ scanLocal.attempts[k].artifact = "screenshot"
                             /\ scanLocal.attempts[k].failAt \in {"mkdir", "writeFile"}
        IN /\ (row.screenshot_path # "" <=> saved)
           /\ (~HasScreenshot(scanLocal.screenshot) =>
                 /\ row.screenshot_path = "" /\ ~Attempted("screenshot")
                 /\ \A f \in screenshotFiles : f.path # name)
           /\ (notWritten =>
                 row.screenshot_path = "" /\ \A f \in screenshotFiles : f.path # name))

C28_Witness ==
  /\ RowCreated /\ spc = "returned" /\ req.route = "/scans/:id/rescan"
  /\ scans[scanLocal.scanId].screenshot_path = ToString(scanLocal.scanId) \o ".webp"
  /\ \E f \in screenshotFiles : f.path = scans[scanLocal.scanId].screenshot_path

\* C21: a guest session gets at most GUEST_SCANS_LIMIT = 2 successfully completed
\* audits, whatever the interleaving of its POST /guest/scan requests, and a request
\* that finds guestScansCount at 2 is answered limit_reached without an audit.
C21_AtMostTwoGuestAudits ==
  /\ guestLog.audits <= GUEST_SCANS_LIMIT
  /\ \A r \in DOMAIN guestReqs :
       guestReqs[r].pc # "new" /\ guestReqs[r].count >= GUEST_SCANS_LIMIT
         => guestReqs[r].pc = "done" /\ guestReqs[r].res = "limit_reached"

\* report requests that were served from the token store under token t
ServedFromStore(t) ==
  {i \in DOMAIN guestLog.served :
     guestLog.served[i].token = t /\ guestLog.served[i].source = "token"}

\* the last report of the session a report request came from
LastReportOf(e) == IF e.own THEN guestStore.guestLastReport ELSE 0

\* C22: a guest report token is one-time: the token store serves the report stored
\* under a token to at most one GET /guest/report request, a used token is gone from
\* the store, and a request with a token the store does not (any longer) hold falls
\* back to the requesting session's last report or redirects to '/'.
C22_TokenServedOnce ==
  /\ \A t \in 1..guestLog.issued :
       /\ Cardinality(ServedFromStore(t)) <= 1
       /\ ServedFromStore(t) # {} => \A e \in guestReportTokens : e.token # t
  /\ \A i \in DOMAIN guestLog.served :
       LET e == guestLog.served[i]
       IN IF e.source = "token"
          THEN /\ e.report = e.token
               /\ \A j \in 1..(i - 1) : guestLog.served[j].token # e.token
          ELSE /\ e.report = LastReportOf(e)
               /\ e.source = IF LastReportOf(e) = 0 THEN "redirect /" ELSE "session"

C22_Witness ==
  \E i, j \in DOMAIN guestLog.served :
    /\ i < j
    /\ guestLog.served[i].token = guestLog.served[j].token
    /\ guestLog.served[i].source = "token"
    /\ guestLog.served[j].source = "session"
    /\ guestLog.served[j].report # guestLog.served[i].report

\* C23: validateCsrf protects every state-changing POST route: a POST whose _csrf
\* field is missing or differs from the session's csrfToken never reaches its
\* handler, changes no state, and, unless an earlier guard (authentication, rate
\* limit) has answered it, is answered 403.
C23_BadTokenRejected ==
  post.pc # "idle" /\ ~post.tokenOk
    => /\ ~post.handled /\ ~post.changed
       /\ post.pc = "done"
            => post.status \in {"403", "429", "redirect /login or 401", "redirect /dashboard"}

\* ids of the scans a user owned when the delete request arrived
ScansBefore(owned) ==
  {del.before.scans[k].id : k \in {j \in DOMAIN del.before.scans :
                                     (del.before.scans[j].user_id = UserId) = owned}}

\* C24: single delete and batch delete respect the user id: whatever ids are
\* submitted, the rows, screenshot files and filmstrip files of scans the requester
\* does not own are still there.
C24_DeleteRespectsUserId ==
  del.route \in {"/scans/delete-batch", "/scans/:id/delete"}
    => \A id \in ScansBefore(FALSE) :
         /\ \E k \in DOMAIN scans : scans[k].id = id
         /\ \A f \in del.before.screenshotFiles :
              f.path = ScreenshotName(id) => f \in screenshotFiles
         /\ \A f \in del.before.filmstripFiles :
              f.path = FilmstripName(id) => f \in filmstripFiles

\* C29: after an account deletion has completed without a failed unlink, no
\* screenshot file and no filmstrip file of a scan of the deleted user remains.
C29_NoArtifactAfterAccountDelete ==
  /\ del.route = "/account/delete" /\ del.pc = "done"
  /\ del.status = "redirect /register?deleted=1" /\ ~del.unlinkFailed
  => \A id \in ScansBefore(TRUE) :
       /\ \A f \in screenshotFiles : f.path # ScreenshotName(id)
       /\ \A f \in filmstripFiles : f.path # FilmstripName(id)

\* C25: pagination of GET /scans is capped to the loaded data: the current page lies
\* in 1..totalPages, and when at least one group was loaded the page shown holds at
\* least one group and so does every page a link 1..totalPages points to.
C25_PageWithinLoadedData ==
  pageView # NoPage
    => /\ pageView.page \in 1..pageView.totalPages
       /\ pageReq.groupsAvailable >= 1
            => /\ Len(pageView.scanGroups) >= 1
               /\ \A p \in 1..pageView.totalPages :
                    (p - 1) * SCANS_PER_PAGE < pageReq.groupsAvailable

C25_Witness ==
  /\ pageView # NoPage
  /\ pageReq.page = 4 /\ pageReq.totalCount = 13 /\ pageReq.groupsAvailable = 7
  /\ pageView.page = 2 /\ pageView.totalPages = 2 /\ pageView.scanGroups = << 7 >>

\* C30: every promise returned by showAlert, showConfirm or showChoice is resolved
\* exactly once, when the modal is closed by a button, the backdrop or Escape, also
\* when a dialog was requested while an earlier one was open; after the close no
\* keydown listener of the modal is registered.
C30_PromisesResolvedOnClose ==
  /\ \A p \in DOMAIN promises : promises[p].resolutions <= 1
  /\ modalHidden
       => /\ \A p \in DOMAIN promises : promises[p].resolutions = 1
          /\ keydownListeners = {}

====
